---- MODULE Spec2Model ----
(***************************************************************************)
(* Deployment worker (agent-deployment): the job executor with its         *)
(* per-target phase machine, the transient remote service, the result      *)
(* aggregation of JobResult and the result reporter's retry loop.          *)
(*                                                                         *)
(* Strings of the program are kept as values: an error text is the pair    *)
(* <<prefix, detail>> of its format string and the error it displays, a    *)
(* path is the sequence of its components, Option is a sequence of length  *)
(* 0 or 1.  Timestamps, durations and machine ids carry no decision and    *)
(* are left out.                                                           *)
(***************************************************************************)
EXTENDS Integers, Sequences, FiniteSets, TLC

VARIABLES
    job,               \* executor: the DeploymentJob handed to execute
    epc,               \* executor: position inside execute / execute_on_target
    idx,               \* executor: index of the target the for loop is at
    result,            \* executor: the JobResult being built
    credentials,       \* executor: Option<Credential> resolved for the target
    remote_msi_path,   \* executor: Option<path> returned by copy_file
    execution_result,  \* executor: Option<Result<ServiceExecutionResult, ServiceError>>
    service,           \* service.rs: the transient service of the running call
    cleanup_result,    \* executor: Option<bool>, whether delete_file returned Ok
    trace,             \* per target, the phase steps taken for it, in order
    config,            \* reporter: the ReporterConfig of the ResultReporter
    backend,           \* reporter: the backend's answer to the 1st, 2nd, ... POST
    rpc,               \* reporter: position inside report_with_retry
    attempts,          \* reporter: local attempts
    current_delay,     \* reporter: local current_delay, in seconds
    last_error,        \* reporter: local last_error
    calls,             \* reporter: the answers client.report_result has received
    report_ret,        \* reporter: Option of what report_with_retry returned
    policy_error,      \* should_retry: Option of the ApiError it is asked about
    policy_retry,      \* should_retry: Option of the bool it returned
    worker_config,     \* poller: the WorkerConfig (interval and maximum backoff)
    ppc,               \* poller: position inside run / poll_and_execute
    current_interval,  \* poller: local current_interval of run, in seconds
    consecutive_empty, \* poller: local consecutive_empty of run
    shutdown,          \* the value of the shutdown watch channel
    shutdown_changed,  \* watch: a send the receiver has not seen yet
    timer_elapsed,     \* select!: sleep(current_interval) is ready
    parked,            \* select!: polled once with no branch ready
    polls,             \* poller: number of poll requests issued
    poll_answer,       \* poller: Option of the answer to the poll request in hand
    last_poll,         \* run: Option of what the last pass of the loop body did
    signal_at,         \* the poller position at which the signal was raised
    smb                \* smb.rs: the copy_file / delete_file call in hand

exec_vars == <<job, epc, idx, result, credentials, remote_msi_path,
               execution_result, service, cleanup_result, trace>>

report_vars == <<config, backend, rpc, attempts, current_delay, last_error,
                 calls, report_ret>>

policy_vars == <<policy_error, policy_retry>>

poll_vars == <<worker_config, ppc, current_interval, consecutive_empty, shutdown,
               shutdown_changed, timer_elapsed, parked, polls, poll_answer, last_poll,
               signal_at>>

smb_vars == <<smb>>

non_exec_vars == <<report_vars, policy_vars, poll_vars, smb_vars>>

non_report_vars == <<exec_vars, policy_vars, poll_vars, smb_vars>>

vars == <<exec_vars, report_vars, policy_vars, poll_vars, smb_vars>>

----------------------------------------------------------------------------
(* Bounds of the model *)

MaxTargets == 2
ServiceTimeoutSecs == 2

----------------------------------------------------------------------------
(* Option *)

None == <<>>
Some(x) == <<x>>
IsSome(o) == Len(o) = 1
Unwrap(o) == o[1]

----------------------------------------------------------------------------
(* api/types.rs *)

MsiInstall == "MsiInstall"
MsiUninstall == "MsiUninstall"
Execute == "Execute"
JobType == {MsiInstall, MsiUninstall, Execute}

Success == "Success"
PartialSuccess == "PartialSuccess"
Failed == "Failed"
JobStatus == {Success, PartialSuccess, Failed}

ReachabilityCheck == "ReachabilityCheck"
CredentialResolution == "CredentialResolution"
SmbCopy == "SmbCopy"
ServiceCreation == "ServiceCreation"
ServiceExecution == "ServiceExecution"
Cleanup == "Cleanup"
ExecutionPhase == {ReachabilityCheck, CredentialResolution, SmbCopy,
                   ServiceCreation, ServiceExecution, Cleanup}

\* A job-kind check that takes the two MSI kinds only.
is_supported_msi_only(job_type) == job_type \in {MsiInstall, MsiUninstall}

is_supported(job_type) == job_type \in {MsiInstall, MsiUninstall, Execute}

\* A success flag that takes only the exit code 0 for a success.
TargetResult_success_zero_only(hostname, exit_code) ==
    [hostname |-> hostname,
     success |-> (exit_code = 0),
     exit_code |-> Some(exit_code),
     error_message |-> None,
     failed_phase |-> None]

TargetResult_success(hostname, exit_code) ==
    [hostname |-> hostname,
     success |-> (exit_code = 0 \/ exit_code = 3010),
     exit_code |-> Some(exit_code),
     error_message |-> None,
     failed_phase |-> None]

\* A failure that carries the exit code of a general MSI error.
TargetResult_failure_with_exit_code(hostname, error, phase) ==
    [hostname |-> hostname,
     success |-> FALSE,
     exit_code |-> Some(1603),
     error_message |-> Some(error),
     failed_phase |-> Some(phase)]

TargetResult_failure(hostname, error, phase) ==
    [hostname |-> hostname,
     success |-> FALSE,
     exit_code |-> None,
     error_message |-> Some(error),
     failed_phase |-> Some(phase)]

JobResult_new ==
    [status |-> Success, target_results |-> <<>>, error_message |-> None,
     finalized |-> FALSE]

success_count(rs) == Cardinality({i \in 1..Len(rs) : rs[i].success})

\* calculate_status without its guard for the empty list: 0 = 0 gives Success.
calculate_status_no_empty_guard(r) ==
    IF success_count(r.target_results) = Len(r.target_results) THEN Success
    ELSE IF success_count(r.target_results) > 0 THEN PartialSuccess
    ELSE Failed

calculate_status(r) ==
    IF Len(r.target_results) = 0 THEN Failed
    ELSE IF success_count(r.target_results) = Len(r.target_results) THEN Success
    ELSE IF success_count(r.target_results) > 0 THEN PartialSuccess
    ELSE Failed

finalize(r) == [r EXCEPT !.status = calculate_status(r), !.finalized = TRUE]

----------------------------------------------------------------------------
(* execution/installer.rs *)

\* A product code as is_valid_product_code reads it: the two delimiters and
\* the '-' separated parts, each with its length and whether it is all hex.
ValidProductCode ==
    [open |-> TRUE, close |-> TRUE,
     parts |-> <<[len |-> 8, hex |-> TRUE], [len |-> 4, hex |-> TRUE],
                 [len |-> 4, hex |-> TRUE], [len |-> 4, hex |-> TRUE],
                 [len |-> 12, hex |-> TRUE]>>]
\* "{invalid-guid}"
InvalidGuidCode ==
    [open |-> TRUE, close |-> TRUE,
     parts |-> <<[len |-> 7, hex |-> FALSE], [len |-> 4, hex |-> FALSE]>>]

\* "12345678-1234-1234-1234-123456789012": a GUID without its braces
UnbracedGuidCode ==
    [open |-> FALSE, close |-> FALSE,
     parts |-> <<[len |-> 8, hex |-> TRUE], [len |-> 4, hex |-> TRUE],
                 [len |-> 4, hex |-> TRUE], [len |-> 4, hex |-> TRUE],
                 [len |-> 12, hex |-> TRUE]>>]

\* The product codes build_msi_uninstall_command is asked about.
SampleProductCodes == {ValidProductCode, InvalidGuidCode, UnbracedGuidCode}

expected_lengths == <<8, 4, 4, 4, 12>>

is_valid_product_code(code) ==
    /\ code.open /\ code.close
    /\ Len(code.parts) = 5
    /\ \A i \in 1..5 : code.parts[i].len = expected_lengths[i] /\ code.parts[i].hex

\* enum MsiExitCode and From<i32>: the variant of a raw exit code; code is
\* the payload of Failed and 0 for the other variants
MsiExitCode_from(code) ==
    CASE code = 0 -> [tag |-> "Success", code |-> 0]
      [] code = 3010 -> [tag |-> "RebootRequired", code |-> 0]
      [] code = 1618 -> [tag |-> "AlreadyInProgress", code |-> 0]
      [] code = 1639 -> [tag |-> "InvalidArgument", code |-> 0]
      [] code = 1612 -> [tag |-> "SourceUnavailable", code |-> 0]
      [] code = 1605 -> [tag |-> "ProductNotInstalled", code |-> 0]
      [] OTHER -> [tag |-> "Failed", code |-> code]

\* MsiExitCode::is_success
MsiExitCode_is_success(e) == e.tag \in {"Success", "RebootRequired"}

\* MsiCommandBuilder::build: Err only for the Execute kind.
MsiCommandBuilder_build(job_type) ==
    IF job_type = Execute THEN "Err_UnsupportedJobType" ELSE "Ok"

build_msi_install_command == MsiCommandBuilder_build(MsiInstall)

build_msi_uninstall_command(product_code) ==
    IF product_code.open /\ ~is_valid_product_code(product_code)
    THEN "Err_InvalidProductCode"
    ELSE MsiCommandBuilder_build(MsiUninstall)

ExitCodes == {0, 3010, 1603}

----------------------------------------------------------------------------
(* The jobs the executor is run on *)

INLINE == "__inline__"
JobVaultRefs == {INLINE, "DeploymentWorker:SMB"}
TargetVaultRefs == {None, Some(INLINE), Some("Target:SMB")}

UncInstallerPath == <<"\\\\", "server", "share", "installer.msi">>
LocalInstallerPath == <<"C:", "installer.msi">>

starts_with_unc(path) == Len(path) > 0 /\ path[1] = "\\\\"

Hostname(i) == <<"target", i>>

TargetLists ==
    UNION {[1..n -> TargetVaultRefs] : n \in 0..MaxTargets}

MkTargets(refs) ==
    [i \in 1..Len(refs) |-> [hostname |-> Hostname(i), vault_ref |-> refs[i]]]

\* Fields a job kind never reads are held at one value.
Jobs ==
    {[job_type |-> t, vault_ref |-> v, inline_credentials |-> ic,
      installer_path |-> p, product_code |-> pc, targets |-> MkTargets(refs)] :
        t \in {MsiInstall}, v \in JobVaultRefs, ic \in BOOLEAN,
        p \in {UncInstallerPath, LocalInstallerPath}, pc \in {None},
        refs \in TargetLists}
    \cup
    {[job_type |-> t, vault_ref |-> v, inline_credentials |-> ic,
      installer_path |-> p, product_code |-> pc, targets |-> MkTargets(refs)] :
        t \in {MsiUninstall}, v \in JobVaultRefs, ic \in BOOLEAN,
        p \in {UncInstallerPath},
        pc \in {None} \cup {Some(c) : c \in SampleProductCodes},
        refs \in TargetLists}
    \cup
    {[job_type |-> t, vault_ref |-> v, inline_credentials |-> ic,
      installer_path |-> p, product_code |-> pc, targets |-> MkTargets(refs)] :
        t \in {Execute}, v \in JobVaultRefs, ic \in BOOLEAN,
        p \in {UncInstallerPath}, pc \in {None},
        refs \in TargetLists}

----------------------------------------------------------------------------
(* jobs/executor.rs *)

NoService ==
    [created |-> FALSE, delete_called |-> FALSE, elapsed |-> 0,
     stopped_code |-> None, exit_code |-> None]

ExecInit ==
    /\ job \in Jobs
    /\ epc = "execute"
    /\ idx = 1
    /\ result = JobResult_new
    /\ credentials = None
    /\ remote_msi_path = None
    /\ execution_result = None
    /\ service = NoService
    /\ cleanup_result = None
    /\ trace = [i \in 1..Len(job.targets) |-> <<>>]

target == job.targets[idx]

\* One step of a target's phase machine: the phase it belongs to, the
\* operation (a call to a collaborator or a local check) and whether it
\* succeeded.  The outcome of delete_file is only logged by the executor: its
\* step is recorded as made (ok) and the outcome is kept in cleanup_result.
Step(phase, op, ok) == [phase |-> phase, op |-> op, ok |-> ok]
Log(steps) == trace' = [trace EXCEPT ![idx] = @ \o steps]

\* Results collected newest first.
push_front(results, tr) == <<tr>> \o results

\* result.target_results.push(target_result)
push(results, tr) == Append(results, tr)

\* A for loop that stops at the first failed target.
Return_abort_on_failure(tr) ==
    LET pushed == [result EXCEPT !.target_results = Append(@, tr)]
        last == idx >= Len(job.targets) \/ ~tr.success
    IN /\ result' = IF last THEN finalize(pushed) ELSE pushed
       /\ epc' = IF last THEN "done" ELSE "check_reachability"
       /\ idx' = idx + 1
       /\ credentials' = None
       /\ remote_msi_path' = None
       /\ execution_result' = None
       /\ service' = NoService
       /\ cleanup_result' = None

\* execute_on_target returns tr: the for loop pushes it and goes to the next
\* target, or finalizes after the last one.
Return(tr) ==
    LET pushed == [result EXCEPT !.target_results = push(@, tr)]
        last == idx >= Len(job.targets)
    IN /\ result' = IF last THEN finalize(pushed) ELSE pushed
       /\ epc' = IF last THEN "done" ELSE "check_reachability"
       /\ idx' = idx + 1
       /\ credentials' = None
       /\ remote_msi_path' = None
       /\ execution_result' = None
       /\ service' = NoService
       /\ cleanup_result' = None

\* execute: the job-kind check and the entry into the for loop.
ExecuteStart ==
    /\ epc = "execute"
    /\ IF ~is_supported(job.job_type)
       THEN /\ result' = finalize([result EXCEPT
                            !.error_message = Some(<<"Unsupported job type", job.job_type>>),
                            !.status = Failed])
            /\ epc' = "done"
       ELSE IF Len(job.targets) = 0
       THEN /\ result' = finalize(result)
            /\ epc' = "done"
       ELSE /\ result' = result
            /\ epc' = "check_reachability"
    /\ UNCHANGED <<job, idx, credentials, remote_msi_path, execution_result,
                   service, cleanup_result, trace>>
    /\ UNCHANGED non_exec_vars

\* A reachability check whose error is not returned.
CheckReachability_ignore_failure ==
    /\ epc = "check_reachability"
    /\ \E reachable \in BOOLEAN :
         /\ trace' = [trace EXCEPT ![idx] =
                         @ \o <<[phase |-> ReachabilityCheck,
                                 op |-> "check_reachability", ok |-> reachable]>>]
         /\ epc' = "resolve_credentials"
    /\ UNCHANGED <<job, idx, result, credentials, remote_msi_path,
                   execution_result, service, cleanup_result>>
    /\ UNCHANGED non_exec_vars

\* execute_on_target, step 1
CheckReachability ==
    /\ epc = "check_reachability"
    /\ \E reachable \in BOOLEAN :
         /\ Log(<<Step(ReachabilityCheck, "check_reachability", reachable)>>)
         /\ IF reachable
            THEN /\ epc' = "resolve_credentials"
                 /\ UNCHANGED <<idx, result, credentials, remote_msi_path,
                                execution_result, service, cleanup_result>>
            ELSE Return(TargetResult_failure(target.hostname,
                           <<"Target unreachable", "NetworkError">>, ReachabilityCheck))
    /\ UNCHANGED job
    /\ UNCHANGED non_exec_vars

\* A reference for which the job-level vault_ref always wins.
effective_vault_ref_job_only(j, t) == j.vault_ref

\* let vault_ref = target.vault_ref.unwrap_or(&job.payload.vault_ref)
effective_vault_ref(j, t) ==
    IF IsSome(t.vault_ref) THEN Unwrap(t.vault_ref) ELSE j.vault_ref

\* execute_on_target, step 3: the match on job.job_type once credentials are
\* there (done: the steps of this turn so far).  execute_msi_uninstall runs up
\* to its first await (the product code and the command are checked locally),
\* execute_msi_install up to copy_file.
Dispatch(done) ==
    CASE job.job_type = MsiInstall ->
           /\ Log(done)
           /\ epc' = "copy_file"
           /\ credentials' = Some("credential")
           /\ UNCHANGED <<idx, result, remote_msi_path, execution_result, service,
                           cleanup_result>>
      [] job.job_type = MsiUninstall ->
           IF ~IsSome(job.product_code)
           THEN /\ Log(done \o <<Step(ServiceCreation, "product_code", FALSE)>>)
                /\ Return(TargetResult_failure(target.hostname,
                              <<"Product code required for uninstall", "">>,
                              ServiceCreation))
           ELSE IF build_msi_uninstall_command(Unwrap(job.product_code)) # "Ok"
           THEN /\ Log(done \o <<Step(ServiceCreation, "build_msi_uninstall_command", FALSE)>>)
                /\ Return(TargetResult_failure(target.hostname,
                              <<"Failed to build uninstall command",
                                build_msi_uninstall_command(Unwrap(job.product_code))>>,
                              ServiceCreation))
           ELSE /\ Log(done \o <<Step(ServiceCreation, "build_msi_uninstall_command", TRUE)>>)
                /\ epc' = "scm_connect"
                /\ credentials' = Some("credential")
                /\ UNCHANGED <<idx, result, remote_msi_path, execution_result, service,
                           cleanup_result>>
      [] job.job_type = Execute ->
           /\ Log(done \o <<Step(ServiceExecution, "direct_execution", FALSE)>>)
           /\ Return(TargetResult_failure(target.hostname,
                         <<"Direct execution not implemented", "">>, ServiceExecution))

\* A resolve_credentials that goes to the store when the payload has the
\* sentinel and no inline credentials.
ResolveCredentials_fallback_to_store ==
    /\ epc = "resolve_credentials"
    /\ IF effective_vault_ref(job, target) = INLINE /\ job.inline_credentials
       THEN Dispatch(<<Step(CredentialResolution, "inline_credentials", TRUE)>>)
       ELSE \E found \in BOOLEAN :
              IF found
              THEN Dispatch(<<Step(CredentialResolution, "get_credential", TRUE)>>)
              ELSE /\ Log(<<Step(CredentialResolution, "get_credential", FALSE)>>)
                   /\ Return(TargetResult_failure(target.hostname,
                                 <<"Credential error", "NotFound">>,
                                 CredentialResolution))
    /\ UNCHANGED job
    /\ UNCHANGED non_exec_vars

\* execute_on_target, step 2, with resolve_credentials
ResolveCredentials ==
    /\ epc = "resolve_credentials"
    /\ IF effective_vault_ref(job, target) = INLINE
       THEN IF job.inline_credentials
            THEN Dispatch(<<Step(CredentialResolution, "inline_credentials", TRUE)>>)
            ELSE /\ Log(<<Step(CredentialResolution, "inline_credentials", FALSE)>>)
                 /\ Return(TargetResult_failure(target.hostname,
                               <<"Credential error", "no credentials provided">>,
                               CredentialResolution))
       ELSE \E found \in BOOLEAN :
              IF found
              THEN Dispatch(<<Step(CredentialResolution, "get_credential", TRUE)>>)
              ELSE /\ Log(<<Step(CredentialResolution, "get_credential", FALSE)>>)
                   /\ Return(TargetResult_failure(target.hostname,
                                 <<"Credential error", "NotFound">>,
                                 CredentialResolution))
    /\ UNCHANGED job
    /\ UNCHANGED non_exec_vars

\* execute_msi_install, steps 3a and 3b: copy_file (smb.rs) validates both paths
\* before it connects (the destination is always \\host\ADMIN$\Temp); the file
\* name is the last component of the source.  Then the install command is built.
CopyFile ==
    /\ epc = "copy_file"
    /\ IF ~starts_with_unc(job.installer_path)
       THEN /\ Log(<<Step(SmbCopy, "copy_file", FALSE)>>)
            /\ Return(TargetResult_failure(target.hostname,
                          <<"SMB copy failed", "InvalidPath">>, SmbCopy))
       ELSE \E outcome \in {"Ok", "ConnectionFailed", "CopyFailed"} :
              IF outcome # "Ok"
              THEN /\ Log(<<Step(SmbCopy, "copy_file", FALSE)>>)
                   /\ Return(TargetResult_failure(target.hostname,
                                 <<"SMB copy failed", outcome>>, SmbCopy))
              ELSE IF build_msi_install_command # "Ok"
              THEN /\ Log(<<Step(SmbCopy, "copy_file", TRUE),
                            Step(ServiceCreation, "build_msi_install_command", FALSE),
                            Step(Cleanup, "delete_file", TRUE)>>)
                   /\ Return(TargetResult_failure(target.hostname,
                                 <<"Failed to build MSI command",
                                   build_msi_install_command>>, ServiceCreation))
              ELSE /\ Log(<<Step(SmbCopy, "copy_file", TRUE),
                            Step(ServiceCreation, "build_msi_install_command", TRUE)>>)
                   /\ remote_msi_path' =
                        Some(<<"\\\\", target.hostname, "ADMIN$", "Temp",
                               job.installer_path[Len(job.installer_path)]>>)
                   /\ epc' = "scm_connect"
                   /\ UNCHANGED <<idx, result, credentials, execution_result, service,
                                  cleanup_result>>
    /\ UNCHANGED job
    /\ UNCHANGED non_exec_vars

----------------------------------------------------------------------------
(* execution/service.rs: windows_impl::execute_via_service_internal *)

ServiceOk(code, cleanup_success) ==
    [ok |-> TRUE, exit_code |-> code, cleanup_success |-> cleanup_success,
     error |-> ""]
ServiceErr(kind) ==
    [ok |-> FALSE, exit_code |-> 0, cleanup_success |-> FALSE, error |-> kind]

\* execute_via_service_internal returns res to the executor.  Its locals end
\* with it; what stays is whether a service was created on the target and
\* whether its deletion was called.  Dropping RemoteService only closes the
\* handle (CloseServiceHandle): an early return by the ? operator leaves the
\* created service in place.
ServiceReturn(res, delete_called) ==
    /\ execution_result' = Some(res)
    /\ epc' = "exec_returned"
    /\ service' = [created |-> service.created, delete_called |-> delete_called,
                   elapsed |-> 0, stopped_code |-> None, exit_code |-> None]
    /\ Log(<<Step(ServiceExecution, "execute_msi_via_service", res.ok)>>)

\* RemoteScm::connect
ScmConnect ==
    /\ epc = "scm_connect"
    /\ \E ok \in BOOLEAN :
         IF ok
         THEN epc' = "create_service" /\ UNCHANGED <<execution_result, service, trace>>
         ELSE ServiceReturn(ServiceErr("ScmConnectionFailed"), FALSE)
    /\ UNCHANGED <<job, idx, result, credentials, remote_msi_path, cleanup_result>>
    /\ UNCHANGED non_exec_vars

\* RemoteScm::create_service
CreateService ==
    /\ epc = "create_service"
    /\ \E ok \in BOOLEAN :
         IF ok
         THEN /\ epc' = "start"
              /\ service' = [service EXCEPT !.created = TRUE]
              /\ UNCHANGED <<execution_result, trace>>
         ELSE ServiceReturn(ServiceErr("ServiceCreationFailed"), FALSE)
    /\ UNCHANGED <<job, idx, result, credentials, remote_msi_path, cleanup_result>>
    /\ UNCHANGED non_exec_vars

\* RemoteService::start
StartService ==
    /\ epc = "start"
    /\ \E ok \in BOOLEAN :
         IF ok
         THEN epc' = "wait_for_stop" /\ UNCHANGED <<execution_result, service, trace>>
         ELSE ServiceReturn(ServiceErr("ServiceStartFailed"), FALSE)
    /\ UNCHANGED <<job, idx, result, credentials, remote_msi_path, cleanup_result>>
    /\ UNCHANGED non_exec_vars

\* What query_status answers: an error, a running (or start-pending) service,
\* or a stopped one with the exit code of its status.
QueryOutcomes ==
    {<<"QueryFailed", 0>>, <<"Running", 0>>} \cup {<<"Stopped", c>> : c \in ExitCodes}

\* RemoteService::wait_for_stop: one turn of the loop; a sleep of poll_interval
\* is one second of elapsed time. query_status gives the state only; once it
\* is SERVICE_STOPPED the exit code is read by a second QueryServiceStatus
\* whose failure is dropped (let _ =), leaving the zeroed SERVICE_STATUS.
\* stopped_code keeps the exit code the stopped service really has.
WaitForStop ==
    /\ epc = "wait_for_stop"
    /\ IF service.elapsed > ServiceTimeoutSecs
       THEN ServiceReturn(ServiceErr("Timeout"), FALSE)
       ELSE \E q \in QueryOutcomes :
              CASE q[1] = "QueryFailed" ->
                     ServiceReturn(ServiceErr("NetworkError"), FALSE)
                [] q[1] = "Running" ->
                     /\ service' = [service EXCEPT !.elapsed = @ + 1]
                     /\ UNCHANGED <<epc, execution_result, trace>>
                [] q[1] = "Stopped" ->
                     /\ \E status_read \in BOOLEAN :
                          service' = [service EXCEPT
                                        !.stopped_code = Some(q[2]),
                                        !.exit_code = Some(IF status_read THEN q[2] ELSE 0),
                                        !.elapsed = 0]
                     /\ epc' = "delete_service"
                     /\ UNCHANGED <<execution_result, trace>>
    /\ UNCHANGED <<job, idx, result, credentials, remote_msi_path, cleanup_result>>
    /\ UNCHANGED non_exec_vars

\* RemoteService::delete and the Ok return
DeleteService ==
    /\ epc = "delete_service"
    /\ \E deleted \in BOOLEAN :
         ServiceReturn(ServiceOk(Unwrap(service.exit_code), deleted), TRUE)
    /\ UNCHANGED <<job, idx, result, credentials, remote_msi_path, cleanup_result>>
    /\ UNCHANGED non_exec_vars

----------------------------------------------------------------------------
(* jobs/executor.rs, after execute_msi_via_service *)

\* A result that a failed cleanup turns into a failure of the Cleanup phase.
install_result_cleanup_failure(hostname, res) ==
    IF ~res.ok
    THEN TargetResult_failure(hostname,
            <<"Service execution failed", res.error>>, ServiceExecution)
    ELSE IF res.cleanup_success /\ cleanup_result = Some(TRUE)
    THEN TargetResult_success(hostname, res.exit_code)
    ELSE TargetResult_failure(hostname, <<"Cleanup failed", "">>, Cleanup)

\* execute_msi_install: "Process result"
install_result(hostname, res) ==
    IF res.ok
    THEN TargetResult_success(hostname, res.exit_code)
    ELSE TargetResult_failure(hostname,
            <<"Service execution failed", res.error>>, ServiceExecution)

\* execute_msi_uninstall: the match on execution_result
uninstall_result(hostname, res) ==
    IF res.ok
    THEN TargetResult_success(hostname, res.exit_code)
    ELSE TargetResult_failure(hostname,
            <<"Uninstall failed", res.error>>, ServiceExecution)

\* A cleanup that runs only after a successful execution.
DeleteFile_skip_on_error ==
    /\ epc = "exec_returned"
    /\ job.job_type = MsiInstall
    /\ IF execution_result[1].ok
       THEN /\ \E deleted \in BOOLEAN : cleanup_result' = <<deleted>>
            /\ trace' = [trace EXCEPT ![idx] =
                            @ \o <<[phase |-> Cleanup, op |-> "delete_file", ok |-> TRUE]>>]
       ELSE UNCHANGED <<cleanup_result, trace>>
    /\ epc' = "process_result"
    /\ UNCHANGED <<job, idx, result, credentials, remote_msi_path,
                   execution_result, service>>
    /\ UNCHANGED non_exec_vars

\* execute_msi_install, step 3d: delete_file, awaited after the execution
\* whatever its result; an error is only logged.
DeleteFile ==
    /\ epc = "exec_returned"
    /\ job.job_type = MsiInstall
    /\ \E deleted \in BOOLEAN : cleanup_result' = Some(deleted)
    /\ Log(<<Step(Cleanup, "delete_file", TRUE)>>)
    /\ epc' = "process_result"
    /\ UNCHANGED <<job, idx, result, credentials, remote_msi_path,
                   execution_result, service>>
    /\ UNCHANGED non_exec_vars

\* execute_msi_install: the match on execution_result that ends it
InstallResult ==
    /\ epc = "process_result"
    /\ Return(install_result(target.hostname, Unwrap(execution_result)))
    /\ UNCHANGED <<job, trace>>
    /\ UNCHANGED non_exec_vars

\* An uninstall that ends with the deletion of a copied installer.
UninstallResult_with_cleanup ==
    /\ epc = "exec_returned"
    /\ job.job_type = MsiUninstall
    /\ Return(uninstall_result(target.hostname, Unwrap(execution_result)))
    /\ Log(<<Step(Cleanup, "delete_file", TRUE)>>)
    /\ UNCHANGED job
    /\ UNCHANGED non_exec_vars

UninstallResult ==
    /\ epc = "exec_returned"
    /\ job.job_type = MsiUninstall
    /\ Return(uninstall_result(target.hostname, Unwrap(execution_result)))
    /\ UNCHANGED <<job, trace>>
    /\ UNCHANGED non_exec_vars

ExecNext ==
    \/ ExecuteStart
    \/ CheckReachability
    \/ ResolveCredentials
    \/ CopyFile
    \/ ScmConnect
    \/ CreateService
    \/ StartService
    \/ WaitForStop
    \/ DeleteService
    \/ DeleteFile
    \/ InstallResult
    \/ UninstallResult

\* The executor at rest, for the specifications of the other components.
NoJob ==
    [job_type |-> MsiInstall, vault_ref |-> INLINE, inline_credentials |-> FALSE,
     installer_path |-> UncInstallerPath, product_code |-> None, targets |-> <<>>]

ExecIdle ==
    /\ job = NoJob
    /\ epc = "idle"
    /\ idx = 1
    /\ result = JobResult_new
    /\ credentials = None
    /\ remote_msi_path = None
    /\ execution_result = None
    /\ service = NoService
    /\ cleanup_result = None
    /\ trace = <<>>

PolicyIdle ==
    /\ policy_error = None
    /\ policy_retry = None

\* config.rs: default_poll_interval, default_max_backoff
WorkerConfig_default == [poll_interval_seconds |-> 30, max_backoff_seconds |-> 300]

PollIdle ==
    /\ worker_config = WorkerConfig_default
    /\ ppc = "idle"
    /\ current_interval = 0
    /\ consecutive_empty = 0
    /\ shutdown = FALSE
    /\ shutdown_changed = FALSE
    /\ timer_elapsed = FALSE
    /\ parked = FALSE
    /\ polls = 0
    /\ poll_answer = None
    /\ last_poll = None
    /\ signal_at = "never"

----------------------------------------------------------------------------
(* execution/smb.rs: SmbConnection, copy_file, delete_file *)

MaxSmbCalls == 4

\* No call in hand: no SmbConnection value, opened counts the connections
\* connect has returned and cancels the calls of WNetCancelConnection2W.
SmbIdle ==
    smb = [pc |-> "idle", op |-> "none", exists |-> FALSE, connected |-> FALSE,
           opened |-> 0, cancels |-> 0, cancel_result |-> "none",
           ret |-> "none", calls |-> 0]

\* SmbConnection::disconnect: nothing on a connection that is not connected;
\* otherwise one WNetCancelConnection2W, whose result is only logged
disconnect(c, cancel) ==
    IF ~c.connected THEN c
    ELSE [c EXCEPT !.connected = FALSE, !.cancels = @ + 1,
                   !.cancel_result = cancel]

\* copy_file, up to spawn_blocking: both paths are validated
copy_file ==
    /\ smb.pc \in {"idle", "returned"}
    /\ smb.calls < MaxSmbCalls
    /\ \E source_unc, dest_unc \in BOOLEAN :
         smb' = [smb EXCEPT !.op = "copy_file", !.calls = @ + 1,
                            !.pc = IF source_unc /\ dest_unc THEN "connect" ELSE "returned",
                            !.ret = IF source_unc /\ dest_unc THEN "none" ELSE "InvalidPath"]
    /\ UNCHANGED <<exec_vars, report_vars, policy_vars, poll_vars>>

\* delete_file, up to spawn_blocking: the path is validated
delete_file ==
    /\ smb.pc \in {"idle", "returned"}
    /\ smb.calls < MaxSmbCalls
    /\ \E path_unc \in BOOLEAN :
         smb' = [smb EXCEPT !.op = "delete_file", !.calls = @ + 1,
                            !.pc = IF path_unc THEN "connect" ELSE "returned",
                            !.ret = IF path_unc THEN "none" ELSE "InvalidPath"]
    /\ UNCHANGED <<exec_vars, report_vars, policy_vars, poll_vars>>

\* SmbConnection::connect: WNetAddConnection2W answers 0, or that the
\* connection is already there, or another error, which the ? returns
connect ==
    /\ smb.pc = "connect"
    /\ \E outcome \in {"Ok", "AlreadyAssigned", "Failed"} :
         smb' = IF outcome = "Failed"
                THEN [smb EXCEPT !.pc = "returned", !.ret = "ConnectionFailed"]
                ELSE [smb EXCEPT !.pc = "transfer", !.exists = TRUE,
                                 !.connected = TRUE, !.opened = @ + 1]
    /\ UNCHANGED <<exec_vars, report_vars, policy_vars, poll_vars>>

\* A closure whose failed copy or delete leaves the connection behind.
transfer_leak_on_error ==
    /\ smb.pc = "transfer"
    /\ \E ok \in BOOLEAN :
         smb' = [smb EXCEPT !.pc = IF ok THEN "drop" ELSE "returned",
                            !.ret = IF ok \/ smb.op = "delete_file" THEN "Ok"
                                    ELSE "CopyFailed"]
    /\ UNCHANGED <<exec_vars, report_vars, policy_vars, poll_vars>>

\* copy_file_internal or delete_file_internal inside the closure; a
\* DeleteFailed is turned into Ok; either way the closure ends and _conn goes
\* out of scope
transfer ==
    /\ smb.pc = "transfer"
    /\ \E ok \in BOOLEAN :
         smb' = [smb EXCEPT !.pc = "drop",
                            !.ret = IF ok \/ smb.op = "delete_file" THEN "Ok"
                                    ELSE "CopyFailed"]
    /\ UNCHANGED <<exec_vars, report_vars, policy_vars, poll_vars>>

\* impl Drop for SmbConnection: disconnect, then the value is gone and the
\* operation returns
drop ==
    /\ smb.pc = "drop"
    /\ \E cancel \in {"ok", "failed"} :
         smb' = [disconnect(smb, cancel) EXCEPT !.pc = "returned", !.exists = FALSE]
    /\ UNCHANGED <<exec_vars, report_vars, policy_vars, poll_vars>>

SmbNext ==
    \/ copy_file
    \/ delete_file
    \/ connect
    \/ transfer
    \/ drop

----------------------------------------------------------------------------
(* api/client.rs: report_result, and jobs/reporter.rs: report_with_retry *)

MaxRetriesBound == 3

Max(a, b) == IF a >= b THEN a ELSE b
Min(a, b) == IF a <= b THEN a ELSE b

\* What the HTTP exchange of one POST gives: no response at all (send()
\* failed), or a response with a status code.
NoResponse == [sent |-> FALSE, status |-> 0]
HttpResponse(status) == [sent |-> TRUE, status |-> status]
ReportStatuses == {200, 401, 404, 429, 500, 501}
ReportAnswers == {NoResponse} \cup {HttpResponse(s) : s \in ReportStatuses}

\* enum ApiError; status_code is 0 for the variants that carry none
ApiError(kind, status_code) == [kind |-> kind, status_code |-> status_code]

\* #[error("...")] of ApiError: the format string's prefix and its number
ApiError_to_string(e) ==
    CASE e.kind = "RequestFailed" -> <<"HTTP request failed", 0>>
      [] e.kind = "AuthenticationFailed" -> <<"Authentication failed", 0>>
      [] e.kind = "ServerError" -> <<"Server error", e.status_code>>
      [] e.kind = "CredentialError" -> <<"Credential error", 0>>
      [] e.kind = "InvalidResponse" -> <<"Invalid response", 0>>
      [] e.kind = "RateLimited" -> <<"Rate limited, retry after", e.status_code>>
      [] e.kind = "JobAlreadyClaimed" -> <<"Job already claimed", 0>>

RetOk == <<"Ok">>
RetErr(e) == <<"Err", e>>

\* A report_result without the NOT_FOUND arm.
report_result_404_error(answer) ==
    IF ~answer.sent THEN RetErr(ApiError("RequestFailed", 0))
    ELSE IF answer.status \in {200, 201, 202} THEN RetOk
    ELSE IF answer.status = 401 THEN RetErr(ApiError("AuthenticationFailed", 0))
    ELSE RetErr(ApiError("ServerError", answer.status))

\* ApiClient::report_result: the Result it returns for an answer
report_result(answer) ==
    IF ~answer.sent THEN RetErr(ApiError("RequestFailed", 0))
    ELSE IF answer.status \in {200, 201, 202} THEN RetOk
    ELSE IF answer.status = 401 THEN RetErr(ApiError("AuthenticationFailed", 0))
    ELSE IF answer.status = 404 THEN RetOk
    ELSE RetErr(ApiError("ServerError", answer.status))

\* A policy that retries every 5xx, 501 included.
should_retry_every_5xx(error) ==
    CASE error.kind = "RequestFailed" -> TRUE
      [] error.kind = "ServerError" -> error.status_code >= 500
      [] error.kind = "RateLimited" -> TRUE
      [] error.kind = "AuthenticationFailed" -> FALSE
      [] error.kind = "CredentialError" -> FALSE
      [] error.kind = "InvalidResponse" -> TRUE
      [] error.kind = "JobAlreadyClaimed" -> FALSE

\* ResultReporter::should_retry
should_retry(error) ==
    CASE error.kind = "RequestFailed" -> TRUE
      [] error.kind = "ServerError" -> error.status_code >= 500 /\ error.status_code # 501
      [] error.kind = "RateLimited" -> TRUE
      [] error.kind = "AuthenticationFailed" -> FALSE
      [] error.kind = "CredentialError" -> FALSE
      [] error.kind = "InvalidResponse" -> TRUE
      [] error.kind = "JobAlreadyClaimed" -> FALSE

\* ResultReporter::calculate_next_delay
calculate_next_delay(cfg, current) ==
    Min(current * cfg.backoff_factor, cfg.max_delay)

\* A retry budget that is spent one attempt early.
retries_exhausted_early(att, max_retries) == att + 1 >= max_retries

\* A retry budget that allows one attempt more.
retries_exhausted_late(att, max_retries) == att > max_retries

\* report_with_retry: attempts >= self.config.max_retries
retries_exhausted(att, max_retries) == att >= max_retries

\* The Err arm with the budget looked at before the kind of error.
on_error_budget_first(e, att, max_retries) ==
    IF retries_exhausted(att, max_retries) THEN "max_retries_exceeded"
    ELSE IF ~should_retry(e) THEN "api_error"
    ELSE "retry"

\* report_with_retry, the Err(e) arm: what the loop does with the error
on_error(e, att, max_retries) ==
    IF ~should_retry(e) THEN "api_error"
    ELSE IF retries_exhausted(att, max_retries) THEN "max_retries_exceeded"
    ELSE "retry"

\* enum ReportError, and Ok(())
ReportOk == <<"Ok">>
ReportError_ApiError(e) == <<"ApiError", e>>
MaxRetriesExceeded(att, err) == <<"MaxRetriesExceeded", att, err>>

ReporterConfig_default ==
    [max_retries |-> 3, initial_delay |-> 1, max_delay |-> 30, backoff_factor |-> 2]

\* ResultReporter::with_config: the configurations explored
ReporterConfigs ==
    {[ReporterConfig_default EXCEPT !.max_retries = m, !.initial_delay = d] :
        m \in 0..MaxRetriesBound, d \in {1, 20}}

\* One answer more than the loop can ask for.
BackendLen(cfg) == Max(cfg.max_retries, 1) + 1

ReportIdle ==
    /\ config = ReporterConfig_default
    /\ backend = <<>>
    /\ rpc = "idle"
    /\ attempts = 0
    /\ current_delay = 0
    /\ last_error = <<>>
    /\ calls = <<>>
    /\ report_ret = None

\* report_with_retry, entry: lines 84-86
ReportInit ==
    /\ ExecIdle
    /\ PolicyIdle
    /\ PollIdle
    /\ SmbIdle
    /\ config \in ReporterConfigs
    /\ backend \in [1..BackendLen(config) -> ReportAnswers]
    /\ rpc = "call"
    /\ attempts = 0
    /\ current_delay = config.initial_delay
    /\ last_error = <<>>
    /\ calls = <<>>
    /\ report_ret = None

\* One iteration of the loop up to its return or its sleep.
ReportCall ==
    /\ rpc = "call"
    /\ Len(calls) < Len(backend)
    /\ LET answer == backend[Len(calls) + 1]
           res == report_result(answer)
           att == attempts + 1
       IN /\ attempts' = att
          /\ calls' = Append(calls, answer)
          /\ IF res = RetOk
             THEN /\ report_ret' = Some(ReportOk)
                  /\ rpc' = "done"
                  /\ UNCHANGED last_error
             ELSE LET e == res[2]
                      todo == on_error(e, att, config.max_retries)
                  IN /\ last_error' = ApiError_to_string(e)
                     /\ CASE todo = "api_error" ->
                               /\ report_ret' = Some(ReportError_ApiError(e))
                               /\ rpc' = "done"
                          [] todo = "max_retries_exceeded" ->
                               /\ report_ret' =
                                    Some(MaxRetriesExceeded(att, ApiError_to_string(e)))
                               /\ rpc' = "done"
                          [] todo = "retry" ->
                               /\ report_ret' = report_ret
                               /\ rpc' = "sleep"
    /\ UNCHANGED <<config, backend, current_delay>>
    /\ UNCHANGED non_report_vars

\* tokio::time::sleep(current_delay), then the next delay
ReportSleep ==
    /\ rpc = "sleep"
    /\ current_delay' = calculate_next_delay(config, current_delay)
    /\ rpc' = "call"
    /\ UNCHANGED <<config, backend, attempts, last_error, calls, report_ret>>
    /\ UNCHANGED non_report_vars

ReportNext ==
    \/ ReportCall
    \/ ReportSleep

----------------------------------------------------------------------------
(* api/client.rs: poll_next_job, and jobs/poller.rs: run, poll_and_execute *)

MaxPolls == 4

\* The jobs the backend hands out: an install and an uninstall for one
\* target, and a job of the execute kind for two.
PolledJobs ==
    {[job_type |-> MsiInstall, vault_ref |-> INLINE, inline_credentials |-> TRUE,
      installer_path |-> UncInstallerPath, product_code |-> None,
      targets |-> MkTargets(<<None>>)],
     [job_type |-> MsiUninstall, vault_ref |-> INLINE, inline_credentials |-> TRUE,
      installer_path |-> UncInstallerPath, product_code |-> Some(ValidProductCode),
      targets |-> MkTargets(<<None>>)],
     [job_type |-> Execute, vault_ref |-> INLINE, inline_credentials |-> TRUE,
      installer_path |-> UncInstallerPath, product_code |-> None,
      targets |-> MkTargets(<<None, None>>)]}

\* What the HTTP exchange of one GET gives: no response (send() failed), or a
\* status with, for 200, the Option of the job its body parses to and, for
\* 429, the Option of the number its Retry-After header parses to.
PollAnswer(sent, status, body, retry_after) ==
    [sent |-> sent, status |-> status, body |-> body, retry_after |-> retry_after]

JobAnswers == {PollAnswer(TRUE, 200, Some(j), None) : j \in PolledJobs}

NoJobAnswers ==
    {PollAnswer(FALSE, 0, None, None), PollAnswer(TRUE, 200, None, None)}
    \cup {PollAnswer(TRUE, c, None, None) : c \in {204, 401, 409, 500}}
    \cup {PollAnswer(TRUE, 429, None, r) : r \in {None, Some(0), Some(45)}}

\* ApiClient::poll_next_job: the Result it returns for an answer
poll_next_job(answer) ==
    IF ~answer.sent THEN RetErr(ApiError("RequestFailed", 0))
    ELSE IF answer.status = 200
         THEN IF IsSome(answer.body) THEN <<"Ok", answer.body>>
              ELSE RetErr(ApiError("InvalidResponse", 0))
    ELSE IF answer.status = 204 THEN <<"Ok", None>>
    ELSE IF answer.status = 401 THEN RetErr(ApiError("AuthenticationFailed", 0))
    ELSE IF answer.status = 429
         THEN RetErr(ApiError("RateLimited",
                              IF IsSome(answer.retry_after)
                              THEN Unwrap(answer.retry_after) ELSE 60))
    ELSE IF answer.status = 409 THEN RetErr(ApiError("JobAlreadyClaimed", 0))
    ELSE RetErr(ApiError("ServerError", answer.status))

\* enum PollResult; retry_after is 0 for the variants that carry none
JobExecuted == [tag |-> "JobExecuted", retry_after |-> 0]
NoJobs == [tag |-> "NoJobs", retry_after |-> 0]
Error == [tag |-> "Error", retry_after |-> 0]
RateLimited(retry_after) == [tag |-> "RateLimited", retry_after |-> retry_after]

\* poll_and_execute, lines 131-152: the PollResult for a poll without a job
poll_result(res) ==
    IF res[1] = "Ok" THEN NoJobs
    ELSE IF res[2].kind = "RateLimited" THEN RateLimited(res[2].status_code)
    ELSE Error

IsJob(res) == IF res[1] = "Ok" THEN IsSome(res[2]) ELSE FALSE

IsAuthenticationFailed(res) ==
    IF res[1] = "Err" THEN res[2].kind = "AuthenticationFailed" ELSE FALSE

\* A backoff that doubles without a cap.
calculate_backoff_uncapped(current, max) == current * 2

\* JobPoller::calculate_backoff
calculate_backoff(current, max) ==
    IF current * 2 > max THEN max ELSE current * 2

\* A streak that starts the idle backoff one empty poll later.
streak_reached_late(n) == n > 3

\* run: consecutive_empty >= 3
streak_reached(n) == n >= 3

\* A run that resets the streak but keeps the interval after a job.
next_interval_kept_after_job(pr, current, streak, cfg) ==
    CASE pr.tag = "JobExecuted" -> current
      [] pr.tag = "NoJobs" ->
            IF streak_reached(streak)
            THEN calculate_backoff(current, cfg.max_backoff_seconds) ELSE current
      [] pr.tag = "Error" -> calculate_backoff(current, cfg.max_backoff_seconds)
      [] pr.tag = "RateLimited" -> pr.retry_after

\* A run that backs off on errors only from the third of them.
next_interval_error_threshold(pr, current, streak, cfg) ==
    CASE pr.tag = "JobExecuted" -> cfg.poll_interval_seconds
      [] pr.tag = "NoJobs" ->
            IF streak_reached(streak)
            THEN calculate_backoff(current, cfg.max_backoff_seconds) ELSE current
      [] pr.tag = "Error" ->
            IF streak_reached(streak)
            THEN calculate_backoff(current, cfg.max_backoff_seconds) ELSE current
      [] pr.tag = "RateLimited" -> pr.retry_after

\* A run that caps the server's retry interval at the configured maximum.
next_interval_rate_limit_capped(pr, current, streak, cfg) ==
    CASE pr.tag = "JobExecuted" -> cfg.poll_interval_seconds
      [] pr.tag = "NoJobs" ->
            IF streak_reached(streak)
            THEN calculate_backoff(current, cfg.max_backoff_seconds) ELSE current
      [] pr.tag = "Error" -> calculate_backoff(current, cfg.max_backoff_seconds)
      [] pr.tag = "RateLimited" -> Min(pr.retry_after, cfg.max_backoff_seconds)

\* A run whose backoff on errors doubles without the cap.
next_interval_error_uncapped(pr, current, streak, cfg) ==
    CASE pr.tag = "JobExecuted" -> cfg.poll_interval_seconds
      [] pr.tag = "NoJobs" ->
            IF streak_reached(streak)
            THEN calculate_backoff(current, cfg.max_backoff_seconds) ELSE current
      [] pr.tag = "Error" -> current * 2
      [] pr.tag = "RateLimited" -> pr.retry_after

\* A run that starts the streak of empty polls again after an error.
next_empty_reset_on_error(pr, streak) ==
    CASE pr.tag = "JobExecuted" -> 0
      [] pr.tag = "NoJobs" -> streak + 1
      [] pr.tag = "Error" -> 0
      [] pr.tag = "RateLimited" -> streak

\* run, the match on the PollResult: the consecutive_empty it leaves
next_empty(pr, streak) ==
    CASE pr.tag = "JobExecuted" -> 0
      [] pr.tag = "NoJobs" -> streak + 1
      [] pr.tag = "Error" -> streak
      [] pr.tag = "RateLimited" -> streak

\* run, the match on the PollResult: the current_interval it leaves, streak
\* being the consecutive_empty after the match
next_interval(pr, current, streak, cfg) ==
    CASE pr.tag = "JobExecuted" -> cfg.poll_interval_seconds
      [] pr.tag = "NoJobs" ->
            IF streak_reached(streak)
            THEN calculate_backoff(current, cfg.max_backoff_seconds) ELSE current
      [] pr.tag = "Error" -> calculate_backoff(current, cfg.max_backoff_seconds)
      [] pr.tag = "RateLimited" -> pr.retry_after

\* Config::validate asks for poll_interval_seconds > 0 and nothing of
\* max_backoff_seconds.
PollerConfigs ==
    {[poll_interval_seconds |-> 1, max_backoff_seconds |-> 4],
     [poll_interval_seconds |-> 3, max_backoff_seconds |-> 2]}

\* The answers to the report calls of a polled job.
WorkerBackends ==
    [1..BackendLen(ReporterConfig_default) -> {HttpResponse(200), NoResponse}]
    \cup {[k \in 1..BackendLen(ReporterConfig_default) |-> HttpResponse(401)]}

\* run, lines 62-65, at the top of the loop for the first time
PollerInit ==
    /\ ExecIdle
    /\ ReportIdle
    /\ PolicyIdle
    /\ SmbIdle
    /\ worker_config \in PollerConfigs
    /\ ppc = "select"
    /\ current_interval = worker_config.poll_interval_seconds
    /\ consecutive_empty = 0
    /\ shutdown = FALSE
    /\ shutdown_changed = FALSE
    /\ timer_elapsed = FALSE
    /\ parked = FALSE
    /\ polls = 0
    /\ poll_answer = None
    /\ last_poll = None
    /\ signal_at = "never"

\* The top of the loop: select! makes a new sleep(interval), which is ready
\* at once or not when the interval is zero, and polls both branches.
EnterSelect(interval) ==
    /\ ppc' = "select"
    /\ parked' = FALSE
    /\ timer_elapsed' \in (IF interval = 0 THEN BOOLEAN ELSE {FALSE})

\* run, the match on the PollResult, and back to the top of the loop;
\* last_poll keeps the answer, the refresh_token outcome and the report
\* outcome of the pass with the interval and the streak it started from
Continue(pr, refreshed, reported) ==
    LET streak == next_empty(pr, consecutive_empty)
        interval == next_interval(pr, current_interval, streak, worker_config)
    IN /\ consecutive_empty' = streak
       /\ current_interval' = interval
       /\ EnterSelect(interval)
       /\ last_poll' = Some([answer |-> poll_answer, result |-> pr,
                             interval |-> current_interval,
                             empty |-> consecutive_empty,
                             refreshed |-> refreshed, reported |-> reported])

\* shutdown_tx.send(true): Ctrl+C or the service control handler
RaiseShutdown ==
    /\ ~shutdown
    /\ ppc # "stopped"
    /\ shutdown' = TRUE
    /\ shutdown_changed' = TRUE
    /\ signal_at' = IF ppc = "select" /\ timer_elapsed THEN "timer_elapsed" ELSE ppc
    /\ UNCHANGED <<worker_config, ppc, current_interval, consecutive_empty,
                   timer_elapsed, parked, polls, poll_answer>>
    /\ UNCHANGED <<exec_vars, report_vars, policy_vars, smb_vars>>
    /\ UNCHANGED last_poll

\* select!: no branch is ready, the task waits to be woken
Park ==
    /\ ppc = "select"
    /\ ~parked
    /\ ~timer_elapsed
    /\ ~shutdown_changed
    /\ parked' = TRUE
    /\ UNCHANGED <<worker_config, ppc, current_interval, consecutive_empty, shutdown,
                   shutdown_changed, timer_elapsed, polls, poll_answer, signal_at>>
    /\ UNCHANGED <<exec_vars, report_vars, policy_vars, smb_vars>>
    /\ UNCHANGED last_poll

\* The sleep's deadline passes while the task waits.
TimerFires ==
    /\ ppc = "select"
    /\ parked
    /\ ~timer_elapsed
    /\ timer_elapsed' = TRUE
    /\ UNCHANGED <<worker_config, ppc, current_interval, consecutive_empty, shutdown,
                   shutdown_changed, parked, polls, poll_answer, signal_at>>
    /\ UNCHANGED <<exec_vars, report_vars, policy_vars, smb_vars>>
    /\ UNCHANGED last_poll

\* select!: the sleep branch is taken, poll_and_execute sends its request
SelectSleep ==
    /\ ppc = "select"
    /\ timer_elapsed
    /\ polls < MaxPolls
    /\ ppc' = "poll"
    /\ polls' = polls + 1
    /\ timer_elapsed' = FALSE
    /\ parked' = FALSE
    /\ last_poll' = None
    /\ UNCHANGED <<worker_config, current_interval, consecutive_empty, shutdown,
                   shutdown_changed, poll_answer, signal_at>>
    /\ UNCHANGED <<exec_vars, report_vars, policy_vars, smb_vars>>

\* A changed() branch that races the whole loop body, job included.
SelectShutdown_mid_job ==
    /\ ppc \in {"select", "execute", "report"}
    /\ shutdown_changed
    /\ shutdown_changed' = FALSE
    /\ ppc' = "stopped"
    /\ UNCHANGED <<timer_elapsed, parked>>
    /\ UNCHANGED <<worker_config, current_interval, consecutive_empty, shutdown,
                   polls, poll_answer, signal_at>>
    /\ UNCHANGED <<exec_vars, report_vars, policy_vars, smb_vars>>
    /\ UNCHANGED last_poll

\* A changed() branch that never breaks out of the loop.
SelectShutdown_never_breaks ==
    /\ ppc = "select"
    /\ shutdown_changed
    /\ shutdown_changed' = FALSE
    /\ EnterSelect(current_interval)
    /\ UNCHANGED <<worker_config, current_interval, consecutive_empty, shutdown,
                   polls, poll_answer, signal_at>>
    /\ UNCHANGED <<exec_vars, report_vars, policy_vars, smb_vars>>
    /\ UNCHANGED last_poll

\* select!: the shutdown_rx.changed() branch is taken
SelectShutdown ==
    /\ ppc = "select"
    /\ shutdown_changed
    /\ shutdown_changed' = FALSE
    /\ IF shutdown
       THEN /\ ppc' = "stopped"
            /\ UNCHANGED <<timer_elapsed, parked>>
       ELSE EnterSelect(current_interval)
    /\ UNCHANGED <<worker_config, current_interval, consecutive_empty, shutdown,
                   polls, poll_answer, signal_at>>
    /\ UNCHANGED <<exec_vars, report_vars, policy_vars, smb_vars>>
    /\ UNCHANGED last_poll

\* poll_next_job: the exchange with the backend ends
PollResponse ==
    /\ ppc = "poll"
    /\ poll_answer' \in {Some(a) : a \in JobAnswers \cup NoJobAnswers}
    /\ ppc' = "polled"
    /\ UNCHANGED <<worker_config, current_interval, consecutive_empty, shutdown,
                   shutdown_changed, timer_elapsed, parked, polls, signal_at>>
    /\ UNCHANGED <<exec_vars, report_vars, policy_vars, smb_vars>>
    /\ UNCHANGED last_poll

\* poll_and_execute, lines 131-152, and the match of run on its result: a
\* poll that brings no job and no authentication failure
PollNoJob ==
    /\ ppc = "polled"
    /\ ~IsJob(poll_next_job(Unwrap(poll_answer)))
    /\ ~IsAuthenticationFailed(poll_next_job(Unwrap(poll_answer)))
    /\ Continue(poll_result(poll_next_job(Unwrap(poll_answer))), None, None)
    /\ poll_answer' = None
    /\ UNCHANGED <<worker_config, shutdown, shutdown_changed, polls, signal_at>>
    /\ UNCHANGED <<exec_vars, report_vars, policy_vars, smb_vars>>

\* poll_and_execute, lines 140-147: the poll failed with
\* AuthenticationFailed, refresh_token is about to be called
PollAuthenticationFailed ==
    /\ ppc = "polled"
    /\ IsAuthenticationFailed(poll_next_job(Unwrap(poll_answer)))
    /\ ppc' = "refresh_token"
    /\ UNCHANGED <<worker_config, current_interval, consecutive_empty, shutdown,
                   shutdown_changed, timer_elapsed, parked, polls, poll_answer,
                   signal_at>>
    /\ UNCHANGED <<exec_vars, report_vars, policy_vars, smb_vars>>
    /\ UNCHANGED last_poll

\* A poll_and_execute for which a failed refresh_token ends the loop.
RefreshToken_fatal_on_failure ==
    /\ ppc = "refresh_token"
    /\ \/ Continue(poll_result(poll_next_job(Unwrap(poll_answer))), Some(TRUE), None)
       \/ /\ ppc' = "stopped"
          /\ UNCHANGED <<current_interval, consecutive_empty, timer_elapsed, parked,
                         last_poll>>
    /\ poll_answer' = None
    /\ UNCHANGED <<worker_config, shutdown, shutdown_changed, polls, signal_at>>
    /\ UNCHANGED <<exec_vars, report_vars, policy_vars, smb_vars>>

\* refresh_token returns Ok or Err, PollResult::Error either way
RefreshToken ==
    /\ ppc = "refresh_token"
    /\ \E refreshed \in BOOLEAN :
         Continue(poll_result(poll_next_job(Unwrap(poll_answer))), Some(refreshed), None)
    /\ poll_answer' = None
    /\ UNCHANGED <<worker_config, shutdown, shutdown_changed, polls, signal_at>>
    /\ UNCHANGED <<exec_vars, report_vars, policy_vars, smb_vars>>

\* poll_and_execute, lines 154-168: the poll brought a job, handed to
\* executor.execute
PollJob ==
    /\ ppc = "polled"
    /\ IsJob(poll_next_job(Unwrap(poll_answer)))
    /\ job' = Unwrap(poll_next_job(Unwrap(poll_answer))[2])
    /\ trace' = [i \in 1..Len(job'.targets) |-> <<>>]
    /\ ppc' = "execute"
    /\ epc' = "execute"
    /\ idx' = 1
    /\ result' = JobResult_new
    /\ credentials' = None
    /\ remote_msi_path' = None
    /\ execution_result' = None
    /\ service' = NoService
    /\ cleanup_result' = None
    /\ poll_answer' = None
    /\ UNCHANGED <<worker_config, current_interval, consecutive_empty, shutdown,
                   shutdown_changed, timer_elapsed, parked, polls, signal_at>>
    /\ UNCHANGED <<report_vars, policy_vars, smb_vars>>
    /\ UNCHANGED last_poll

\* A report that is spawned and not awaited: the loop goes on at once.
StartReport_detached ==
    /\ ppc = "execute"
    /\ epc = "done"
    /\ EnterSelect(current_interval)
    /\ epc' = "idle"
    /\ result' = JobResult_new
    /\ trace' = <<>>
    /\ config' = ReporterConfig_default
    /\ backend' \in WorkerBackends
    /\ rpc' = "call"
    /\ attempts' = 0
    /\ current_delay' = ReporterConfig_default.initial_delay
    /\ last_error' = <<>>
    /\ calls' = <<>>
    /\ report_ret' = None
    /\ UNCHANGED <<job, idx, credentials, remote_msi_path, execution_result, service,
                   cleanup_result>>
    /\ UNCHANGED <<worker_config, current_interval, consecutive_empty, shutdown,
                   shutdown_changed, polls, poll_answer, signal_at>>
    /\ UNCHANGED <<policy_vars, smb_vars>>
    /\ UNCHANGED last_poll

\* poll_and_execute, line 177: execute has returned and its locals are gone;
\* the result goes into the body of the report request, which no decision of
\* report_with_retry reads
StartReport ==
    /\ ppc = "execute"
    /\ epc = "done"
    /\ ppc' = "report"
    /\ epc' = "idle"
    /\ result' = JobResult_new
    /\ trace' = <<>>
    /\ config' = ReporterConfig_default
    /\ backend' \in WorkerBackends
    /\ rpc' = "call"
    /\ attempts' = 0
    /\ current_delay' = ReporterConfig_default.initial_delay
    /\ last_error' = <<>>
    /\ calls' = <<>>
    /\ report_ret' = None
    /\ UNCHANGED <<job, idx, credentials, remote_msi_path, execution_result, service,
                   cleanup_result>>
    /\ UNCHANGED <<worker_config, current_interval, consecutive_empty, shutdown,
                   shutdown_changed, timer_elapsed, parked, polls, poll_answer,
                   signal_at>>
    /\ UNCHANGED <<policy_vars, smb_vars>>
    /\ UNCHANGED last_poll

\* poll_and_execute returns: its job and the locals of report_with_retry are
\* dropped
DropJob ==
    /\ job' = NoJob
    /\ idx' = 1
    /\ config' = ReporterConfig_default
    /\ backend' = <<>>
    /\ rpc' = "idle"
    /\ attempts' = 0
    /\ current_delay' = 0
    /\ last_error' = <<>>
    /\ calls' = <<>>
    /\ report_ret' = None
    /\ UNCHANGED <<epc, result, credentials, remote_msi_path, execution_result,
                   service, cleanup_result, trace>>

\* A poll_and_execute that makes a failed report fatal: the loop ends.
FinishJob_fatal_report_failure ==
    /\ ppc = "report"
    /\ rpc = "done"
    /\ IF report_ret = Some(ReportOk)
       THEN Continue(JobExecuted, None, report_ret)
       ELSE /\ ppc' = "stopped"
            /\ UNCHANGED <<current_interval, consecutive_empty, timer_elapsed,
                           parked, last_poll>>
    /\ DropJob
    /\ UNCHANGED <<worker_config, shutdown, shutdown_changed, polls, poll_answer,
                   signal_at>>
    /\ UNCHANGED <<policy_vars, smb_vars>>

\* poll_and_execute, lines 177-187, and the JobExecuted arm of run
FinishJob ==
    /\ ppc = "report"
    /\ rpc = "done"
    /\ Continue(JobExecuted, None, report_ret)
    /\ DropJob
    /\ UNCHANGED <<worker_config, shutdown, shutdown_changed, polls, poll_answer,
                   signal_at>>
    /\ UNCHANGED <<policy_vars, smb_vars>>

PollerNext ==
    \/ RaiseShutdown
    \/ Park
    \/ TimerFires
    \/ SelectSleep
    \/ SelectShutdown
    \/ PollResponse
    \/ PollNoJob
    \/ PollAuthenticationFailed
    \/ RefreshToken
    \/ PollJob
    \/ StartReport
    \/ FinishJob

WorkerNext ==
    \/ PollerNext
    \/ ExecNext
    \/ ReportNext

----------------------------------------------------------------------------
(* ResultReporter::should_retry on its own: any ApiError *)

MaxStatusCode == 599
MaxRetryAfter == 60

\* Every ApiError value: a ServerError for each status code, a RateLimited
\* for each retry_after_seconds, and the variants that carry no number.
ApiErrors ==
    {ApiError("ServerError", c) : c \in 100..MaxStatusCode}
    \cup {ApiError("RateLimited", r) : r \in 0..MaxRetryAfter}
    \cup {ApiError(k, 0) : k \in {"RequestFailed", "AuthenticationFailed",
                                  "CredentialError", "InvalidResponse",
                                  "JobAlreadyClaimed"}}

ShouldRetryInit ==
    /\ ExecIdle
    /\ ReportIdle
    /\ PollIdle
    /\ SmbIdle
    /\ policy_error \in {Some(e) : e \in ApiErrors}
    /\ policy_retry = None

ShouldRetry ==
    /\ IsSome(policy_error)
    /\ policy_retry = None
    /\ policy_retry' = Some(should_retry(Unwrap(policy_error)))
    /\ UNCHANGED <<policy_error, exec_vars, report_vars, poll_vars, smb_vars>>

ShouldRetryNext == ShouldRetry

----------------------------------------------------------------------------
(* JobResult::finalize on its own: any JobResult, whatever its status *)

SampleTargetResults ==
    {TargetResult_success(Hostname(1), c) : c \in ExitCodes}
    \cup {TargetResult_failure(Hostname(1), <<"SMB copy failed", "CopyFailed">>, SmbCopy),
          TargetResult_failure(Hostname(1), <<"Target unreachable", "NetworkError">>,
                               ReachabilityCheck)}

SampleJobResults ==
    {[status |-> s, target_results |-> rs, error_message |-> e, finalized |-> FALSE] :
        s \in JobStatus,
        rs \in UNION {[1..n -> SampleTargetResults] : n \in 0..MaxTargets},
        e \in {None, Some(<<"Unsupported job type", Execute>>)}}

FinalizeInit ==
    /\ job = NoJob
    /\ epc = "finalize"
    /\ idx = 1
    /\ result \in SampleJobResults
    /\ credentials = None
    /\ remote_msi_path = None
    /\ execution_result = None
    /\ service = NoService
    /\ cleanup_result = None
    /\ trace = <<>>
    /\ ReportIdle
    /\ PolicyIdle
    /\ PollIdle
    /\ SmbIdle

Finalize ==
    /\ epc = "finalize"
    /\ result' = finalize(result)
    /\ epc' = "done"
    /\ UNCHANGED <<job, idx, credentials, remote_msi_path, execution_result,
                   service, cleanup_result, trace>>
    /\ UNCHANGED non_exec_vars

FinalizeNext == Finalize

----------------------------------------------------------------------------
(* Specifications *)

Init == ExecInit /\ ReportIdle /\ PolicyIdle /\ PollIdle /\ SmbIdle
Next == ExecNext
Spec == Init /\ [][Next]_vars

SpecFinalize == FinalizeInit /\ [][FinalizeNext]_vars

SpecReport == ReportInit /\ [][ReportNext]_vars

\* Before the first call of copy_file or delete_file
SmbInit ==
    /\ ExecIdle
    /\ ReportIdle
    /\ PolicyIdle
    /\ PollIdle
    /\ SmbIdle

SpecSmb == SmbInit /\ [][SmbNext]_vars

SpecShouldRetry == ShouldRetryInit /\ [][ShouldRetryNext]_vars

SpecWorker == PollerInit /\ [][WorkerNext]_vars

\* The GET of a poll answered by a backend that never rate-limits
PollResponseNeverRateLimited ==
    /\ PollResponse
    /\ Unwrap(poll_answer').status # 429

\* The worker against a backend that never answers a poll with 429
NeverRateLimitedNext ==
    \/ RaiseShutdown
    \/ Park
    \/ TimerFires
    \/ SelectSleep
    \/ SelectShutdown
    \/ PollResponseNeverRateLimited
    \/ PollNoJob
    \/ PollAuthenticationFailed
    \/ RefreshToken
    \/ PollJob
    \/ StartReport
    \/ FinishJob
    \/ ExecNext
    \/ ReportNext

SpecWorkerNeverRateLimited == PollerInit /\ [][NeverRateLimitedNext]_vars

\* The awaited steps of poll_and_execute
PollerSteps ==
    \/ PollResponse
    \/ PollNoJob
    \/ PollAuthenticationFailed
    \/ RefreshToken
    \/ PollJob
    \/ StartReport
    \/ FinishJob

\* Every HTTP exchange, remote call and sleep of a job ends, and select!,
\* which picks among its ready branches at random, does not leave a ready
\* changed() branch aside for ever.
SpecWorkerFair ==
    /\ PollerInit
    /\ [][WorkerNext]_vars
    /\ WF_vars(ExecNext)
    /\ WF_vars(ReportNext)
    /\ WF_vars(PollerSteps)
    /\ SF_vars(SelectShutdown)

\* The HTTP call returns and the sleep ends: the loop is never stuck in a step.
SpecReportFair == ReportInit /\ [][ReportNext]_vars /\ WF_vars(ReportNext)

----------------------------------------------------------------------------
(* Properties *)

Results == result.target_results
Done == epc = "done"
AllSucceeded(rs) == \A i \in 1..Len(rs) : rs[i].success
NoneSucceeded(rs) == \A i \in 1..Len(rs) : ~rs[i].success
HasStep(i, op, ok) ==
    \E k \in 1..Len(trace[i]) : trace[i][k].op = op /\ trace[i][k].ok = ok
CountOp(i, op) == Cardinality({k \in 1..Len(trace[i]) : trace[i][k].op = op})
AllOk(t, n) == \A m \in 1..n : t[m].ok

\* C1: after finalize the status is decided by the target results alone:
\* Success iff there is at least one result and all succeeded, Failed iff there
\* is none or none succeeded, PartialSuccess otherwise, whatever the status was.
C1_FinalizeStatus ==
    result.finalized =>
        LET rs == result.target_results
            all == Len(rs) >= 1 /\ AllSucceeded(rs)
            none == Len(rs) = 0 \/ NoneSucceeded(rs)
        IN /\ (result.status = Success <=> all)
           /\ (result.status = Failed <=> none)
           /\ (result.status = PartialSuccess <=> (~all /\ ~none))

C1_Witness ==
    /\ result.finalized
    /\ Len(result.target_results) = 2
    /\ result.status = PartialSuccess
    /\ IsSome(result.error_message)

\* C2 (as claimed): when a phase fails for a target no later phase is attempted
\* for it, its result has success = false and failed_phase = the failed phase,
\* and every following target is still processed.
C2_NoLaterPhaseAfterFailure ==
    /\ \A i \in 1..Len(Results) : \A k \in 1..Len(trace[i]) :
          ~trace[i][k].ok =>
              /\ k = Len(trace[i])
              /\ ~Results[i].success
              /\ Results[i].failed_phase = Some(trace[i][k].phase)
    /\ Done => /\ Len(Results) = Len(job.targets)
               /\ \A i \in 1..Len(job.targets) : Len(trace[i]) >= 1

\* C2 (amended): when a phase fails for a target no later phase other than
\* Cleanup is attempted for it (the copied installer is still deleted after a
\* failed execution), its result has success = false and failed_phase = the
\* failed phase, and every following target is still processed.
C2_FailureEndsTargetNotJob ==
    /\ \A i \in 1..Len(Results) : \A k \in 1..Len(trace[i]) :
          ~trace[i][k].ok =>
              /\ \A m \in (k + 1)..Len(trace[i]) : trace[i][m].phase = Cleanup
              /\ ~Results[i].success
              /\ Results[i].failed_phase = Some(trace[i][k].phase)
    /\ Done => /\ Len(Results) = Len(job.targets)
               /\ \A i \in 1..Len(job.targets) : Len(trace[i]) >= 1

\* Scenario B: T1 fails at SmbCopy, T2 succeeds.
C2_Witness ==
    /\ Done
    /\ Len(job.targets) = 2
    /\ HasStep(1, "copy_file", FALSE)
    /\ Results[1].failed_phase = Some(SmbCopy)
    /\ Results[2].success
    /\ result.status = PartialSuccess

\* The phases of an install, in the order of execute_on_target and
\* execute_msi_install.
InstallPhases ==
    <<ReachabilityCheck, CredentialResolution, SmbCopy, ServiceCreation,
      ServiceExecution, Cleanup>>

InService ==
    epc \in {"scm_connect", "create_service", "start", "wait_for_stop", "delete_service"}

\* C3: for each target of an install job the phases are taken in the fixed
\* order, each only after every earlier one succeeded, Cleanup right after the
\* execution attempt whatever its result; a target whose reachability probe
\* failed gets no credential lookup, no SMB call and no remote-service call.
C3_InstallPhaseOrder ==
    job.job_type = MsiInstall =>
        /\ \A i \in 1..Len(trace) :
              LET t == trace[i] IN
              /\ Len(t) <= 6
              /\ \A k \in 1..Len(t) :
                    /\ t[k].phase = InstallPhases[k]
                    /\ t[k].phase # Cleanup => AllOk(t, k - 1)
                    /\ t[k].phase = Cleanup => AllOk(t, k - 2)
              /\ (Len(t) >= 1 /\ ~t[1].ok) =>
                    /\ Len(t) = 1
                    /\ \A op \in {"get_credential", "copy_file",
                                   "execute_msi_via_service", "delete_file"} :
                          CountOp(i, op) = 0
        /\ epc = "resolve_credentials" => Len(trace[idx]) = 1 /\ AllOk(trace[idx], 1)
        /\ epc = "copy_file" => Len(trace[idx]) = 2 /\ AllOk(trace[idx], 2)
        /\ InService => Len(trace[idx]) = 4 /\ AllOk(trace[idx], 4)

C3_Witness ==
    /\ job.job_type = MsiInstall
    /\ Done
    /\ Len(job.targets) = 2
    /\ Len(trace[1]) = 1 /\ ~trace[1][1].ok
    /\ Len(trace[2]) = 6 /\ ~trace[2][5].ok

\* C4: a transient service created on a target has had its
\* deletion called when the remote-execution call returns, on every exit path.
C4_ServiceDeletedOnEveryExit ==
    epc = "exec_returned" => (service.created => service.delete_called)

\* C5: for an install target delete_file is attempted exactly once if copy_file
\* succeeded, whether the execution then succeeded or failed, and never if the
\* reachability check, the credential resolution or the copy failed.
C5_InstallerDeletedOnceIffCopied ==
    job.job_type = MsiInstall =>
        /\ \A i \in 1..Len(Results) :
              CountOp(i, "delete_file") = IF HasStep(i, "copy_file", TRUE) THEN 1 ELSE 0
        /\ \A i \in 1..Len(trace) :
              /\ CountOp(i, "delete_file") <= 1
              /\ CountOp(i, "delete_file") = 1 => HasStep(i, "copy_file", TRUE)

C5_Witness ==
    /\ job.job_type = MsiInstall
    /\ Done
    /\ Len(job.targets) = 2
    /\ HasStep(1, "execute_msi_via_service", FALSE) /\ CountOp(1, "delete_file") = 1
    /\ HasStep(2, "execute_msi_via_service", TRUE) /\ CountOp(2, "delete_file") = 1

RemoteOps == {"check_reachability", "get_credential", "copy_file",
              "execute_msi_via_service", "delete_file"}

\* C6: an 'execute' job is rejected at job level: a job-level error
\* message, status Failed, no target result, and no probe, credential lookup,
\* file transfer or remote-service call for any target.
C6_ExecuteRejectedAtJobLevel ==
    job.job_type = Execute =>
        /\ \A i \in 1..Len(trace) : \A op \in RemoteOps : CountOp(i, op) = 0
        /\ Done => /\ IsSome(result.error_message)
                   /\ result.status = Failed
                   /\ Len(Results) = 0

\* C7: a job that passes the job-kind check gets exactly one result per target,
\* the i-th being the result of the i-th target, whatever succeeded or failed.
C7_ResultsFollowTargets ==
    is_supported(job.job_type) =>
        /\ Len(Results) <= Len(job.targets)
        /\ Done => Len(Results) = Len(job.targets)
        /\ \A i \in 1..Len(Results) :
              /\ Results[i].hostname = job.targets[i].hostname
              /\ IsSome(Results[i].failed_phase) <=>
                     (\E k \in 1..Len(trace[i]) : ~trace[i][k].ok)

C7_Witness ==
    /\ Done
    /\ Len(job.targets) = 2
    /\ Results[1].success
    /\ ~Results[2].success
    /\ Results[2].hostname = Hostname(2)

Succeeds(answer) == report_result(answer) = RetOk

\* The answer is an error that should_retry accepts.
Retryable(answer) ==
    IF Succeeds(answer) THEN FALSE ELSE should_retry(report_result(answer)[2])

NonRetryable(answer) ==
    IF Succeeds(answer) THEN FALSE ELSE ~should_retry(report_result(answer)[2])

\* The backend fails retryably n times in a row and then accepts the result.
FailsThenSucceeds(n) ==
    /\ n + 1 <= Len(backend)
    /\ \A k \in 1..n : Retryable(backend[k])
    /\ Succeeds(backend[n + 1])

Returned == rpc = "done"

\* C8 (as claimed): if the backend fails N consecutive times with retryable
\* errors and then succeeds, report_with_retry makes exactly N + 1 calls and
\* returns Ok.
C8_SucceedsAfterNRetryableErrors ==
    \A n \in 0..(Len(backend) - 1) :
        FailsThenSucceeds(n) =>
            /\ Len(calls) <= n + 1
            /\ Returned => /\ Len(calls) = n + 1
                           /\ report_ret = Some(ReportOk)

\* C8 (amended): if the backend fails N consecutive times with retryable
\* errors and then succeeds, and N is below max_retries (or N is 0),
\* report_with_retry makes exactly N + 1 calls and returns Ok.
C8_SucceedsWithinRetryBudget ==
    \A n \in 0..(Len(backend) - 1) :
        (FailsThenSucceeds(n) /\ n < Max(config.max_retries, 1)) =>
            /\ Len(calls) <= n + 1
            /\ Returned => /\ Len(calls) = n + 1
                           /\ report_ret = Some(ReportOk)

C8_Witness ==
    /\ Returned
    /\ config.max_retries = 3
    /\ FailsThenSucceeds(2)
    /\ Len(calls) = 3
    /\ report_ret = Some(ReportOk)

\* C9: a non-retryable error on any attempt, the first, a later one or the last
\* allowed one, ends the loop: no further call is made and the return value is
\* that API error, not MaxRetriesExceeded; on the first attempt exactly one call
\* has been made.
C9_NonRetryableErrorEndsLoop ==
    \A k \in 1..Len(calls) :
        NonRetryable(calls[k]) =>
            /\ Len(calls) = k
            /\ Returned
            /\ report_ret = Some(ReportError_ApiError(report_result(calls[k])[2]))

C9_Witness ==
    /\ Returned
    /\ config.max_retries = 3
    /\ Len(calls) = 3
    /\ calls[3] = HttpResponse(401)
    /\ report_ret = Some(ReportError_ApiError(ApiError("AuthenticationFailed", 0)))

\* C10: report_with_retry always terminates, after at least one and at most
\* max_retries calls (one call when max_retries is 0); when every call failed
\* retryably it returns MaxRetriesExceeded whose attempts is the number of
\* calls made and whose last_error is the text of the last error.
C10_TerminatesWithinBudget ==
    /\ [](/\ Len(calls) <= Max(config.max_retries, 1)
          /\ Returned =>
                /\ Len(calls) >= 1
                /\ (\A k \in 1..Len(calls) : Retryable(calls[k])) =>
                      report_ret = Some(MaxRetriesExceeded(Len(calls),
                          ApiError_to_string(report_result(calls[Len(calls)])[2]))))
    /\ <>Returned

C10_Witness ==
    /\ Returned
    /\ config.max_retries = 3
    /\ Len(calls) = 3
    /\ \A k \in 1..3 : Retryable(calls[k])
    /\ calls[2] = NoResponse
    /\ report_ret = Some(MaxRetriesExceeded(3, <<"Server error", 500>>))

\* C11: the retry decision depends only on the kind of error: it is true
\* exactly for transport failures, server errors with status >= 500 other than
\* 501, rate-limited errors and invalid-response errors, and false for
\* authentication failures, credential-store errors, job-already-claimed and
\* server errors with status 501 or below 500.
C11_RetryPolicyByKind ==
    IsSome(policy_retry) =>
        LET e == Unwrap(policy_error)
            retried == Unwrap(policy_retry)
        IN /\ e.kind \in {"RequestFailed", "RateLimited", "InvalidResponse"} => retried
           /\ e.kind \in {"AuthenticationFailed", "CredentialError",
                           "JobAlreadyClaimed"} => ~retried
           /\ e.kind = "ServerError" =>
                 (retried <=> (e.status_code >= 500 /\ e.status_code # 501))

C11_Witness ==
    /\ policy_error = Some(ApiError("ServerError", 501))
    /\ policy_retry = Some(FALSE)

\* C12: a report call answered with 429 is retried: report_with_retry gives up
\* on a 429 only when the maximum attempt count is reached, returning
\* MaxRetriesExceeded, never after that single call with attempts left.
C12_RateLimitedReportRetried ==
    (Returned /\ Len(calls) >= 1 /\ calls[Len(calls)] = HttpResponse(429)) =>
        /\ Len(calls) >= config.max_retries
        /\ report_ret = Some(MaxRetriesExceeded(Len(calls), <<"Server error", 429>>))

\* C13: a report call answered with 404 counts as a successful report:
\* report_with_retry returns Ok after that call, with no retry and no error.
C13_NotFoundIsSuccess ==
    \A k \in 1..Len(calls) :
        calls[k] = HttpResponse(404) =>
            /\ Len(calls) = k
            /\ Returned
            /\ report_ret = Some(ReportOk)

C13_Witness ==
    /\ Returned
    /\ Len(calls) = 2
    /\ calls[1] = HttpResponse(500)
    /\ calls[2] = HttpResponse(404)
    /\ report_ret = Some(ReportOk)

\* The last pass of the loop body, when there was one.
Last == Unwrap(last_poll)

JobInFlight == job # NoJob

\* C14: at most one job is in flight: no poll request is issued between
\* receiving a job and the end of that job's report attempt, and a job is
\* never executing while one is being reported.
C14_OneJobInFlight ==
    /\ [](/\ JobInFlight => /\ ppc \in {"execute", "report"}
                           /\ poll_answer = None
          /\ epc # "idle" => ppc = "execute" /\ rpc = "idle"
          /\ rpc # "idle" => ppc = "report" /\ epc = "idle")
    /\ [][polls' # polls => (~JobInFlight /\ epc = "idle" /\ rpc = "idle")]_vars

C14_Witness ==
    /\ ppc = "report"
    /\ rpc = "sleep"
    /\ Len(calls) = 2
    /\ polls = 2
    /\ job.job_type = MsiInstall

\* C15: raising the shutdown signal never interrupts a job: the loop exits
\* only from its wait point with no job in flight, execution ends only by
\* execute returning a result for every target, and the report ends only by
\* report_with_retry returning.
C15_ShutdownNeverInterruptsJob ==
    /\ [][(ppc # "stopped" /\ ppc' = "stopped") =>
              (ppc = "select" /\ ~JobInFlight /\ epc = "idle" /\ rpc = "idle")]_vars
    /\ [][(ppc = "execute" /\ ppc' # "execute") =>
              /\ ppc' = "report"
              /\ epc = "done"
              /\ result.finalized
              /\ Len(result.target_results) = Len(job.targets)]_vars
    /\ [][(ppc = "report" /\ ppc' # "report") =>
              /\ ppc' = "select"
              /\ rpc = "done"
              /\ IsSome(report_ret)]_vars

C15_Witness ==
    /\ ppc = "stopped"
    /\ signal_at = "execute"
    /\ IsSome(last_poll)
    /\ Last.result = JobExecuted
    /\ IsSome(Last.reported)

\* C16: after the shutdown signal has been set to true the poller starts no
\* new poll, whether or not the poll timer has elapsed.
C16_NoPollAfterShutdown ==
    [][shutdown => polls' = polls]_vars

\* C17: once the shutdown signal is true the loop eventually exits, and it
\* never exits while the signal is false.
C17_ShutdownEndsLoop ==
    /\ shutdown ~> (ppc = "stopped")
    /\ [](ppc = "stopped" => shutdown)

C17_Witness ==
    /\ ppc = "stopped"
    /\ signal_at = "report"
    /\ polls = 2

\* C18: after a pass that executed a job the poll interval is the base
\* interval and the empty-streak counter is 0, whatever they were before and
\* whether the report succeeded or failed.
C18_JobResetsBackoff ==
    IsSome(last_poll) =>
        (Last.result = JobExecuted =>
            /\ current_interval = worker_config.poll_interval_seconds
            /\ consecutive_empty = 0)

C18_Witness ==
    /\ IsSome(last_poll)
    /\ ppc = "select"
    /\ Last.result = JobExecuted
    /\ Last.interval # worker_config.poll_interval_seconds
    /\ Last.empty = 3
    /\ Last.reported # Some(ReportOk)
    /\ current_interval = worker_config.poll_interval_seconds
    /\ consecutive_empty = 0

\* C19: an empty poll (204) adds one to the empty-streak counter; the interval
\* is unchanged while the counter is below 3 and becomes
\* min(2 x interval, max backoff) on the third and every later empty poll.
C19_EmptyPollBackoff ==
    IsSome(last_poll) =>
        /\ IsSome(Last.answer) =>
              (Unwrap(Last.answer).status = 204 <=> Last.result = NoJobs)
        /\ Last.result = NoJobs =>
              /\ consecutive_empty = Last.empty + 1
              /\ current_interval =
                    IF consecutive_empty < 3 THEN Last.interval
                    ELSE Min(2 * Last.interval, worker_config.max_backoff_seconds)

C19_Witness ==
    /\ IsSome(last_poll)
    /\ Last.result = NoJobs
    /\ consecutive_empty = 4
    /\ Last.interval = 2
    /\ current_interval = 4

ErrorAnswers ==
    {PollAnswer(FALSE, 0, None, None), PollAnswer(TRUE, 200, None, None)}
    \cup {PollAnswer(TRUE, c, None, None) : c \in {401, 409, 500}}

\* C20: a poll error other than rate limiting (transport failure, server
\* error, 401, 409, unparseable job body) sets the interval to
\* min(2 x interval, max backoff) from the first such error on, and the loop
\* goes back to its wait point.
C20_ErrorPollBackoff ==
    IsSome(last_poll) =>
        /\ IsSome(Last.answer) =>
              (Unwrap(Last.answer) \in ErrorAnswers <=> Last.result = Error)
        /\ Last.result = Error =>
              /\ current_interval =
                    Min(2 * Last.interval, worker_config.max_backoff_seconds)
              /\ ppc = "stopped" => shutdown
              /\ ppc \in {"select", "stopped"}

C20_Witness ==
    /\ IsSome(last_poll)
    /\ ppc = "select"
    /\ polls = 1
    /\ Last.answer = Some(PollAnswer(TRUE, 409, None, None))
    /\ Last.result = Error
    /\ Last.interval = 1
    /\ current_interval = 2

\* C21: after a poll answered 429 the next interval is exactly the number of
\* seconds of its Retry-After header, and 60 when the header is absent or
\* does not parse, whatever the interval before, the base interval and the
\* maximum backoff; the empty streak is left as it was.
C21_RateLimitedInterval ==
    IsSome(last_poll) =>
        /\ Last.result.tag = "RateLimited" => IsSome(Last.answer)
        /\ IsSome(Last.answer) =>
              (Unwrap(Last.answer).status = 429 <=> Last.result.tag = "RateLimited")
        /\ Last.result.tag = "RateLimited" =>
              /\ current_interval =
                    (IF IsSome(Unwrap(Last.answer).retry_after)
                     THEN Unwrap(Unwrap(Last.answer).retry_after) ELSE 60)
              /\ consecutive_empty = Last.empty

\* Retry-After: 45 after an interval of 2 under a maximum backoff of 2
C21_Witness ==
    /\ IsSome(last_poll)
    /\ Last.answer = Some(PollAnswer(TRUE, 429, None, Some(45)))
    /\ Last.interval = 2
    /\ worker_config.max_backoff_seconds = 2
    /\ worker_config.poll_interval_seconds = 3
    /\ current_interval = 45

\* The passes of the loop that end with a backoff step.
BackoffStep ==
    /\ IsSome(last_poll)
    /\ \/ Last.result = Error
       \/ Last.result = NoJobs /\ streak_reached(consecutive_empty)

MaxDelaySecs == 40

\* C22 as stated: every backoff step of the poller and of the reporter gives
\* min(current x factor, max), which is at least the current value and at
\* most the maximum.
C22_BackoffMonotoneAndCapped ==
    /\ [](BackoffStep =>
            /\ current_interval =
                 Min(2 * Last.interval, worker_config.max_backoff_seconds)
            /\ current_interval >= Last.interval
            /\ current_interval <= worker_config.max_backoff_seconds)
    /\ [][rpc = "sleep" /\ rpc' = "call" =>
            /\ current_delay' = Min(current_delay * config.backoff_factor, config.max_delay)
            /\ current_delay' >= current_delay
            /\ current_delay' <= config.max_delay]_vars

\* C22: every backoff step of the poller and of the reporter gives
\* min(current x factor, max), which is at most the maximum; it is at least
\* the current value exactly when the current value is at most the maximum,
\* which holds for every delay of the reporter and fails for an interval of
\* the poller that a Retry-After or a base interval set above the maximum.
C22_BackoffCappedMonotoneBelowMax ==
    /\ [](BackoffStep =>
            /\ current_interval =
                 Min(2 * Last.interval, worker_config.max_backoff_seconds)
            /\ current_interval <= worker_config.max_backoff_seconds
            /\ current_interval >= Last.interval
                 <=> Last.interval <= worker_config.max_backoff_seconds)
    /\ [][rpc = "sleep" /\ rpc' = "call" =>
            /\ current_delay' = Min(current_delay * config.backoff_factor, config.max_delay)
            /\ current_delay <= config.max_delay
            /\ current_delay' >= current_delay
            /\ current_delay' <= config.max_delay]_vars
    /\ [](\A current \in 0..MaxDelaySecs :
            LET next == calculate_next_delay(ReporterConfig_default, current)
            IN /\ next <= ReporterConfig_default.max_delay
               /\ next >= current <=> current <= ReporterConfig_default.max_delay)

\* An error after a 429 with Retry-After: 45 under a maximum backoff of 4:
\* the step takes the interval from 45 down to 4.
C22_Witness ==
    /\ BackoffStep
    /\ Last.result = Error
    /\ Last.interval = 45
    /\ worker_config.max_backoff_seconds = 4
    /\ current_interval = 4

ReportFailed(ret) == IF IsSome(ret) THEN Unwrap(ret) # ReportOk ELSE FALSE

\* C23: a job is handed to execute exactly when it is received and to
\* report_with_retry exactly when execute has returned; when the report
\* attempt ends, with Ok or with an error, the job is dropped and the loop is
\* back at its wait point with the outcome JobExecuted, so that a failed
\* report brings no second execution, no second report and no exit.
C23_ReportFailureMovesOn ==
    /\ [][(epc = "idle" /\ epc' # "idle") <=> (ppc = "polled" /\ ppc' = "execute")]_vars
    /\ [][(rpc = "idle" /\ rpc' # "idle") <=> (ppc = "execute" /\ ppc' = "report")]_vars
    /\ [][ppc = "report" /\ ppc' # "report" =>
            /\ rpc = "done"
            /\ ppc' = "select"
            /\ job' = NoJob
            /\ epc' = "idle"
            /\ rpc' = "idle"
            /\ polls' = polls
            /\ Unwrap(last_poll').result = JobExecuted
            /\ Unwrap(last_poll').reported = report_ret]_vars
    /\ [][job' # job => job = NoJob \/ job' = NoJob]_vars
    /\ [](ppc = "stopped" => shutdown)

\* The report of a job ended with MaxRetriesExceeded after four calls: the
\* job is dropped and the loop waits for its next poll, no shutdown raised.
C23_Witness ==
    /\ IsSome(last_poll)
    /\ Last.result = JobExecuted
    /\ ReportFailed(Last.reported)
    /\ Unwrap(Last.reported)[1] = "MaxRetriesExceeded"
    /\ ppc = "select"
    /\ job = NoJob
    /\ polls < MaxPolls
    /\ ~shutdown

\* C24: a poll answered 401, and no other poll, is followed by one call of
\* refresh_token before the loop is back at its wait point; whether the call
\* returns Ok or Err the outcome of the poll is Error, the interval becomes
\* min(2 x interval, max backoff) and the loop goes on.
C24_AuthFailureRefreshesOnce ==
    /\ [](IsSome(last_poll) =>
            /\ IsSome(Last.refreshed) =>
                  /\ IsSome(Last.answer)
                  /\ Last.result = Error
                  /\ current_interval =
                       Min(2 * Last.interval, worker_config.max_backoff_seconds)
                  /\ consecutive_empty = Last.empty
                  /\ ppc \in {"select", "stopped"}
                  /\ ppc = "stopped" => shutdown
            /\ IsSome(Last.answer) =>
                  (Unwrap(Last.answer).status = 401 <=> IsSome(Last.refreshed)))
    /\ [][ppc # "refresh_token" /\ ppc' = "refresh_token" =>
            /\ ppc = "polled"
            /\ Unwrap(poll_answer).status = 401
            /\ polls' = polls]_vars
    /\ [][ppc = "refresh_token" /\ ppc' # "refresh_token" =>
            /\ ppc' = "select"
            /\ polls' = polls
            /\ IsSome(Unwrap(last_poll').refreshed)]_vars
    /\ [][ppc = "polled" /\ ppc' # "polled" /\ Unwrap(poll_answer).status = 401 =>
            ppc' = "refresh_token"]_vars

\* refresh_token failed after a 401: the interval went from 1 to 2 and the
\* loop waits for its next poll.
C24_Witness ==
    /\ IsSome(last_poll)
    /\ Last.answer = Some(PollAnswer(TRUE, 401, None, None))
    /\ Last.refreshed = Some(FALSE)
    /\ Last.result = Error
    /\ Last.interval = 1
    /\ current_interval = 2
    /\ ppc = "select"
    /\ ~shutdown

\* C25: when the report of a job ended with the AuthenticationFailed of a 401,
\* refresh_token is called before the next poll request is sent.
C25_ReportAuthFailureRefreshes ==
    [][(/\ polls' = polls + 1
        /\ IsSome(last_poll)
        /\ Last.reported = Some(ReportError_ApiError(ApiError("AuthenticationFailed", 0))))
       => IsSome(Last.refreshed)]_vars

\* C26: the TargetResult pushed after the remote execution is a function of
\* the exit code or the error of the execution alone: it is the same whether
\* the deletion of the service and the deletion of the copied installer
\* succeeded or failed, and no result names the Cleanup phase.
C26_CleanupNeverChangesOutcome ==
    /\ [][(/\ Len(result'.target_results) = Len(result.target_results) + 1
           /\ IsSome(execution_result)) =>
            LET tr == result'.target_results[Len(result'.target_results)]
                res == Unwrap(execution_result)
            IN /\ tr.success = (res.ok /\ res.exit_code \in {0, 3010})
               /\ tr.exit_code = (IF res.ok THEN Some(res.exit_code) ELSE None)
               /\ tr.error_message =
                    (IF res.ok THEN None
                     ELSE Some(<<(IF job.job_type = MsiInstall
                                  THEN "Service execution failed"
                                  ELSE "Uninstall failed"), res.error>>))
               /\ tr.failed_phase = (IF res.ok THEN None ELSE Some(ServiceExecution))]_vars
    /\ [](\A i \in 1..Len(Results) : Results[i].failed_phase # Some(Cleanup))
    /\ [](epc = "process_result" => IsSome(cleanup_result) /\ IsSome(execution_result))

\* An install whose process exited with 0, whose service could not be
\* deleted and whose installer could not be deleted, with the target before
\* it already reported as a success.
C26_Witness ==
    /\ epc = "process_result"
    /\ idx = 2
    /\ Len(Results) = 1
    /\ Results[1].success
    /\ cleanup_result = Some(FALSE)
    /\ execution_result = Some(ServiceOk(0, FALSE))

\* C27: the reference a target's credentials are resolved from is the
\* target's own vault_ref when it has one and the job's vault_ref otherwise:
\* a target that passed the reachability check takes the inline credentials
\* of the payload exactly when that reference is the sentinel, and is looked
\* up in the credential store exactly when it is not.
C27_TargetVaultRefPrecedence ==
    \A i \in 1..Len(trace) :
        LET t == job.targets[i]
            ref == IF IsSome(t.vault_ref) THEN Unwrap(t.vault_ref) ELSE job.vault_ref
            inline == CountOp(i, "inline_credentials")
            lookup == CountOp(i, "get_credential")
        IN /\ inline + lookup <= 1
           /\ inline = 1 =>
                ref = INLINE /\ HasStep(i, "inline_credentials", job.inline_credentials)
           /\ lookup = 1 => ref # INLINE
           /\ (i <= Len(Results) /\ HasStep(i, "check_reachability", TRUE)) =>
                inline + lookup = 1

\* A job with the sentinel and no inline credentials: the first target
\* overrides the reference and is looked up in the store, the second has no
\* reference of its own and fails on the job's sentinel.
C27_Witness ==
    /\ Done
    /\ job.vault_ref = INLINE
    /\ ~job.inline_credentials
    /\ Len(job.targets) = 2
    /\ job.targets[1].vault_ref = Some("Target:SMB")
    /\ job.targets[2].vault_ref = None
    /\ HasStep(1, "get_credential", TRUE)
    /\ HasStep(2, "inline_credentials", FALSE)
    /\ Results[2].failed_phase = Some(CredentialResolution)

\* The finished targets of a job with the sentinel and no inline credentials
\* that have no vault_ref of their own.
InlineWithoutCredentials(i) ==
    /\ job.vault_ref = INLINE
    /\ ~job.inline_credentials
    /\ i <= Len(Results)
    /\ ~IsSome(job.targets[i].vault_ref)

NoCredentialsProvided(i) ==
    /\ ~Results[i].success
    /\ Results[i].failed_phase = Some(CredentialResolution)
    /\ Results[i].error_message = Some(<<"Credential error", "no credentials provided">>)

NoUseOfCredentials(i) ==
    \A op \in {"get_credential", "copy_file", "execute_msi_via_service", "delete_file"} :
        CountOp(i, op) = 0

\* C28: in a job with the sentinel and no inline credentials, every target
\* whose credentials are resolved from that reference, that is every such
\* target that got past the reachability probe, fails at CredentialResolution
\* with 'no credentials provided'; one that did not answer the probe has
\* failed at ReachabilityCheck without its reference being used; for neither
\* is a store lookup, a copy or a remote-service call made.
C28_InlineWithoutCredentialsFails ==
    \A i \in 1..Len(trace) :
        InlineWithoutCredentials(i) =>
            /\ NoUseOfCredentials(i)
            /\ ~Results[i].success
            /\ HasStep(i, "check_reachability", TRUE) <=> NoCredentialsProvided(i)
            /\ HasStep(i, "check_reachability", FALSE) <=>
                  Results[i].failed_phase = Some(ReachabilityCheck)
            /\ CountOp(i, "check_reachability") = 1
            /\ CountOp(i, "inline_credentials") = 1 <=> NoCredentialsProvided(i)

\* Two targets on the job's sentinel: the first does not answer the probe,
\* the second does and fails for want of credentials.
C28_Witness ==
    /\ Done
    /\ job.job_type = MsiInstall
    /\ Len(job.targets) = 2
    /\ InlineWithoutCredentials(1)
    /\ InlineWithoutCredentials(2)
    /\ Results[1].failed_phase = Some(ReachabilityCheck)
    /\ NoCredentialsProvided(2)
    /\ Len(trace[2]) = 2

\* C29: for an uninstall whose product code is missing or malformed, no
\* target is probed, looked up in the credential store or handed to the
\* remote service, and every finished target has failed in the local check
\* of the product code.
C29_BadProductCodeRejectedLocally ==
    (/\ job.job_type = MsiUninstall
     /\ ~IsSome(job.product_code) \/ job.product_code = Some(InvalidGuidCode)) =>
        \A i \in 1..Len(trace) :
            /\ \A op \in {"check_reachability", "get_credential",
                          "execute_msi_via_service"} : CountOp(i, op) = 0
            /\ i <= Len(Results) =>
                  /\ ~Results[i].success
                  /\ Results[i].failed_phase = Some(ServiceCreation)

\* C30: a pushed TargetResult has an exit code exactly when
\* execute_msi_via_service returned Ok, that is when the service was seen
\* stopped; a timeout, a failure to connect, create or start, and a failure
\* of an earlier phase give a result without exit code, with an error
\* message and a failed phase, which a result with an exit code never has.
C30_ExitCodeIffRanToCompletion ==
    /\ [](\A i \in 1..Len(Results) :
            LET tr == Results[i]
            IN /\ IsSome(tr.exit_code) <=> HasStep(i, "execute_msi_via_service", TRUE)
               /\ IsSome(tr.exit_code) <=> ~IsSome(tr.error_message)
               /\ IsSome(tr.exit_code) <=> ~IsSome(tr.failed_phase)
               /\ ~IsSome(tr.exit_code) => ~tr.success
               /\ tr.success => Unwrap(tr.exit_code) \in {0, 3010})
    /\ [][Len(result'.target_results) = Len(result.target_results) + 1 =>
            LET tr == result'.target_results[Len(result'.target_results)]
            IN IF IsSome(execution_result)
               THEN /\ IsSome(tr.exit_code) <=> Unwrap(execution_result).ok
                    /\ Unwrap(execution_result).ok =>
                          tr.exit_code = Some(Unwrap(execution_result).exit_code)
                    /\ Unwrap(execution_result).error
                          \in {"Timeout", "ScmConnectionFailed", "ServiceCreationFailed",
                               "ServiceStartFailed", "NetworkError"}
                          => ~IsSome(tr.exit_code)
               ELSE ~IsSome(tr.exit_code)]_vars

\* The process of the first target ran and exited with 1603; the service of
\* the second never stopped within the timeout.
C30_Witness ==
    /\ Done
    /\ Len(Results) = 2
    /\ Results[1].exit_code = Some(1603)
    /\ ~Results[1].success
    /\ Results[2].exit_code = None
    /\ Results[2].error_message = Some(<<"Service execution failed", "Timeout">>)

\* C31: every pushed TargetResult with success = false names the phase of
\* its failure and has an error message, and every one with success = true
\* has neither.
C31_FailureCarriesPhaseAndMessage ==
    \A i \in 1..Len(Results) :
        /\ ~Results[i].success =>
              IsSome(Results[i].failed_phase) /\ IsSome(Results[i].error_message)
        /\ Results[i].success =>
              ~IsSome(Results[i].failed_phase) /\ ~IsSome(Results[i].error_message)

MaxExitCode == 3011

\* C33: the success flag that TargetResult::success gives an exit code c is
\* true iff c = 0 or c = 3010, and is what MsiExitCode::from(c).is_success()
\* answers, for every c from -1 to MaxExitCode and for the result of every
\* completed execution in a JobResult.
C33_SuccessIffZeroOr3010 ==
    /\ \A c \in (0 - 1)..MaxExitCode :
          LET tr == TargetResult_success(Hostname(1), c)
          IN /\ tr.success <=> (c = 0 \/ c = 3010)
             /\ tr.success <=> MsiExitCode_is_success(MsiExitCode_from(c))
             /\ tr.exit_code = Some(c)
    /\ \A i \in 1..Len(Results) :
          IsSome(Results[i].exit_code) =>
              LET c == Unwrap(Results[i].exit_code)
              IN /\ Results[i].success <=> (c = 0 \/ c = 3010)
                 /\ Results[i].success <=> MsiExitCode_is_success(MsiExitCode_from(c))

\* A finalized result of an execution that exited with 3010 and of one that
\* exited with 1603.
C33_Witness ==
    /\ result.finalized
    /\ Len(Results) = 2
    /\ Results[1].exit_code = Some(3010)
    /\ Results[1].success
    /\ Results[2].exit_code = Some(1603)
    /\ ~Results[2].success
    /\ result.status = PartialSuccess

\* C34: equal inputs give the same command, and build_msi_uninstall_command
\* answers InvalidProductCode, without a command, for every product code
\* that is not a curly-braced 8-4-4-4-12 hex GUID, so that no target of an
\* uninstall with such a code gets a command built or run.
C34_MalformedProductCodeRejected ==
    /\ \A a, b \in SampleProductCodes :
          a = b => build_msi_uninstall_command(a) = build_msi_uninstall_command(b)
    /\ (job.job_type = MsiUninstall /\ IsSome(job.product_code)) =>
          LET code == Unwrap(job.product_code)
              well_formed ==
                /\ code.open
                /\ code.close
                /\ Len(code.parts) = 5
                /\ \A i \in 1..5 :
                      code.parts[i].len = <<8, 4, 4, 4, 12>>[i] /\ code.parts[i].hex
          IN ~well_formed =>
                /\ build_msi_uninstall_command(code) = "Err_InvalidProductCode"
                /\ \A i \in 1..Len(trace) :
                      /\ ~HasStep(i, "build_msi_uninstall_command", TRUE)
                      /\ CountOp(i, "execute_msi_via_service") = 0

\* C35: is_supported is true for the three job kinds; a job of the execute
\* kind goes through its targets one by one, each target that answers the
\* probe and whose credentials resolve fails at ServiceExecution with
\* 'Direct execution not implemented' without a copy or a remote-service
\* call, and the job ends Failed with one result per target and no
\* job-level error message.
C35_ExecuteFailsPerTarget ==
    /\ \A t \in JobType : is_supported(t)
    /\ job.job_type = Execute =>
          /\ \A i \in 1..Len(trace) :
                /\ \A op \in {"copy_file", "execute_msi_via_service", "delete_file"} :
                      CountOp(i, op) = 0
                /\ i <= Len(Results) =>
                      /\ ~Results[i].success
                      /\ (HasStep(i, "inline_credentials", TRUE)
                          \/ HasStep(i, "get_credential", TRUE))
                         <=> (/\ Results[i].failed_phase = Some(ServiceExecution)
                              /\ Results[i].error_message =
                                   Some(<<"Direct execution not implemented", "">>))
          /\ ~IsSome(result.error_message)
          /\ Done => /\ result.status = Failed
                     /\ Len(Results) = Len(job.targets)

\* An execute job of two targets, both probed and with credentials, both
\* failed at ServiceExecution.
C35_Witness ==
    /\ Done
    /\ job.job_type = Execute
    /\ Len(Results) = 2
    /\ HasStep(1, "get_credential", TRUE)
    /\ HasStep(2, "inline_credentials", TRUE)
    /\ Results[1].failed_phase = Some(ServiceExecution)
    /\ Results[2].failed_phase = Some(ServiceExecution)
    /\ result.status = Failed

\* C36: when copy_file or delete_file has returned, with Ok or with an
\* error, no SmbConnection is left and every connection that connect
\* returned has been cancelled exactly once, whatever the cancel answered;
\* at any moment at most one connection is open and none is cancelled twice,
\* disconnect doing nothing on a connection that is not connected.
C36_SmbConnectionReleasedOnce ==
    /\ smb.pc \in {"idle", "returned"} =>
          /\ ~smb.exists
          /\ ~smb.connected
          /\ smb.cancels = smb.opened
    /\ smb.cancels <= smb.opened
    /\ smb.opened - smb.cancels = (IF smb.connected THEN 1 ELSE 0)
    /\ smb.connected => smb.exists
    /\ smb.pc \in {"transfer", "drop"} <=> smb.connected
    /\ \A r1, r2 \in {"ok", "failed"} :
          /\ disconnect(disconnect(smb, r1), r2) = disconnect(smb, r1)
          /\ ~smb.connected => disconnect(smb, r1) = smb
          /\ disconnect(smb, r1).cancels <= smb.cancels + 1

\* A delete_file and then a copy_file whose copy failed: two connections
\* opened and two cancelled when the copy returns its error.
C36_Witness ==
    /\ smb.pc = "returned"
    /\ smb.op = "copy_file"
    /\ smb.ret = "CopyFailed"
    /\ smb.calls = 2
    /\ smb.opened = 2
    /\ smb.cancels = 2
    /\ ~smb.exists

\* C37: when wait_for_stop returns an exit code, the service was observed
\* stopped, no status query of the wait has failed, and the code returned is
\* the exit code of the stopped service.
C37_WaitReturnsObservedExitCode ==
    epc = "delete_service" =>
        /\ IsSome(service.stopped_code)
        /\ service.exit_code = service.stopped_code

\* C38: with a base interval that is at most the maximum backoff, and against
\* a backend that never rate-limits a poll, the current interval is at least
\* the base interval and at most the maximum backoff in every state of the
\* poller.
C38_IntervalWithinBaseAndMax ==
    worker_config.poll_interval_seconds <= worker_config.max_backoff_seconds =>
        /\ worker_config.poll_interval_seconds <= current_interval
        /\ current_interval <= worker_config.max_backoff_seconds
        /\ IsSome(last_poll) => Last.result.tag # "RateLimited"

\* An error doubled the interval from 2 to the maximum of 4, above the base of 1.
C38_Witness ==
    /\ worker_config.poll_interval_seconds = 1
    /\ worker_config.max_backoff_seconds = 4
    /\ IsSome(last_poll)
    /\ Last.result = Error
    /\ Last.interval = 2
    /\ current_interval = 4

\* C39: the poll interval is strictly positive in every state of the poller,
\* whatever the polls answered, rate-limited answers included.
C39_IntervalPositive == current_interval > 0

\* C40: a pass of the loop that ends in Error or RateLimited leaves
\* consecutive_empty as it found it, an empty poll adds one to it and an
\* executed job sets it to 0; no step other than the end of a pass with an
\* executed job makes the counter smaller, so empty polls with errors between
\* them add up to the threshold of 3.
C40_EmptyStreakResetOnlyByJob ==
    /\ [](IsSome(last_poll) =>
             /\ Last.result.tag \in {"Error", "RateLimited"} =>
                   consecutive_empty = Last.empty
             /\ Last.result.tag = "NoJobs" => consecutive_empty = Last.empty + 1
             /\ Last.result.tag = "JobExecuted" => consecutive_empty = 0)
    /\ [][consecutive_empty' < consecutive_empty =>
             /\ IsSome(last_poll')
             /\ Unwrap(last_poll').result = JobExecuted
             /\ consecutive_empty' = 0]_vars

\* Four polls, one of them an error that doubled the interval from 1 to 2:
\* the third empty poll finds a streak of 2, reaches the threshold and
\* doubles the interval to 4.
C40_Witness ==
    /\ polls = 4
    /\ IsSome(last_poll)
    /\ Last.result = NoJobs
    /\ Last.empty = 2
    /\ consecutive_empty = 3
    /\ Last.interval = 2
    /\ current_interval = 4
    /\ worker_config.poll_interval_seconds = 1

====
